---- MODULE Spec2Model ----
(***************************************************************************)
(* AudioCapture (src/radio_listener/audio_capture.py): one controller      *)
(* calling start_capture / stop_capture, one consumer calling read_chunk,  *)
(* the capture-loop and stderr-monitor threads each start_capture creates, *)
(* and the decoder (FFmpeg) processes.  The buffer is a queue.Queue whose  *)
(* put / get are atomic; everything between two queue or event operations  *)
(* of one thread is one step of that thread.                               *)
(***************************************************************************)
EXTENDS Integers, Sequences, FiniteSets, TLC

\* ---- bounds of the model ------------------------------------------------
buffer_size == 1       \* constructor argument buffer_size
MaxStarts == 2         \* decoder processes spawned over the object's life
MaxChunks == 3         \* chunks the decoders deliver in total
MaxDuration == 2       \* largest duration_seconds passed to read_chunk
MaxIOErrors == 1       \* reads of the decoder pipe that raise

\* ---- program constants --------------------------------------------------
ErrorThreshold == 10
None == 0
DefaultBufferSize == 10      \* AudioCapture(..., buffer_size: int = 10)
DefaultBlockDuration == 10   \* RadioListenerConfig.block_duration

Procs == 1..MaxStarts
Threads == 1..MaxStarts

VARIABLES
  process,         \* self._process: None or the id of a decoder process
  capture_thread,  \* self._capture_thread: None or a thread id
  stderr_thread,   \* self._stderr_thread: None or a thread id
  stop_event,      \* self._stop_event
  buffer,          \* self._buffer: the queued chunks, oldest first
  bytes_read,      \* self._bytes_read, in units of one chunk
  errors,          \* self._errors
  spawned,         \* number of Popen calls that succeeded
  procs,           \* per decoder process: state, terminate() and kill() calls
  capPc, capProc,  \* capture-loop threads: position, process whose pipe is read
  errPc, errProc,  \* stderr-monitor threads: position, process whose pipe is read
  ctlPc,           \* the controller's position inside stop_capture
  rcPc, rcNeed, rcChunks, rcResult,  \* the consumer inside read_chunk
  blockedAtStop,   \* a stop_capture began while the current pop was blocked
  nextChunk,       \* chunks read from the decoders so far
  pushed,          \* chunks admitted into the buffer so far; a chunk is
                   \* named by its rank in the order of admission
  delivered,       \* chunks returned by read_chunk, in return order
  evicted,         \* chunks removed from the buffer by the capture loop
  dropped,         \* chunks read from the decoder and never admitted
  setup,           \* the configuration (buffer_size, block_duration) and
                   \* what the decoders will do: chunks they deliver, pipe
                   \* reads that raise
  lPc,             \* RadioListener: position of the main thread
  running,         \* RadioListener._running
  block_count,     \* RadioListener._block_count
  audio_data,      \* _process_loop: seconds of audio in the block at hand
  saved,           \* BlockRecorder: <<block_number, seconds>> of saved blocks
  shown_errors,    \* calls of display.show_error
  finalized,       \* calls of block_recorder.finalize_session
  unit             \* the object that a specification of one function or of
                   \* one class outside the capture path works on

vars == <<process, capture_thread, stderr_thread, stop_event, buffer,
          bytes_read, errors, spawned, procs, capPc, capProc,
          errPc, errProc, ctlPc, rcPc, rcNeed, rcChunks, rcResult,
          blockedAtStop, nextChunk, pushed, delivered, evicted, dropped,
          setup, lPc, running, block_count, audio_data, saved,
          shown_errors, finalized, unit>>

objVars == <<process, capture_thread, stderr_thread, stop_event>>
statVars == <<bytes_read, errors>>
capVars == <<capPc, capProc>>
errVars == <<errPc, errProc>>
rcVars == <<rcPc, rcNeed, rcChunks, rcResult>>
logVars == <<nextChunk, pushed, delivered, evicted, dropped>>
restVars == <<setup, unit>>
lsnVars == <<lPc, running, block_count, audio_data, saved, shown_errors,
             finalized>>

\* self._buffer = queue.Queue(maxsize=buffer_size * 2)
maxsize == setup.buffer_size * 2

\* ---- queue.Queue --------------------------------------------------------
\* put raising queue.Full one chunk too late
QueueFull_OffByOne(q) == Len(q) > maxsize

QueueFull(q) == Len(q) >= maxsize

\* put inserting at the head of the queue
QueuePut_Front(q, x) == <<x>> \o q

QueuePut(q, x) == Append(q, x)

\* ---- threading.Thread.is_alive, Popen.poll ------------------------------
CaptureThreadAlive(t) == capPc[t] \notin {"none", "done"}

StderrThreadAlive(t) == errPc[t] \notin {"none", "done"}

Poll(p) == procs[p].state = "exited"

\* is_alive that forgets the capture thread
is_alive_NoThreadCheck ==
  /\ process # None
  /\ ~Poll(process)

\* is_alive that does not poll the process
is_alive_NoPoll ==
  /\ process # None
  /\ capture_thread # None
  /\ CaptureThreadAlive(capture_thread)

is_alive ==
  /\ process # None
  /\ ~Poll(process)
  /\ capture_thread # None
  /\ CaptureThreadAlive(capture_thread)

\* AudioCapture.__init__
ObjectInit ==
  /\ process = None
  /\ capture_thread = None
  /\ stderr_thread = None
  /\ stop_event = FALSE
  /\ buffer = <<>>
  /\ bytes_read = 0
  /\ errors = 0
  /\ spawned = 0
  /\ procs = [p \in Procs |-> [state |-> "unspawned", term |-> 0, kill |-> 0]]
  /\ capPc = [t \in Threads |-> "none"]
  /\ capProc = [t \in Threads |-> None]
  /\ errPc = [t \in Threads |-> "none"]
  /\ errProc = [t \in Threads |-> None]
  /\ ctlPc = "idle"
  /\ rcPc = "idle"
  /\ rcNeed = 0
  /\ rcChunks = <<>>
  /\ rcResult = "none"
  /\ blockedAtStop = FALSE
  /\ nextChunk = 0
  /\ pushed = 0
  /\ delivered = <<>>
  /\ evicted = {}
  /\ dropped = 0

\* no RadioListener: the object is driven by free callers
ListenerAbsent ==
  /\ lPc = "none"
  /\ running = FALSE
  /\ block_count = 0
  /\ audio_data = 0
  /\ saved = <<>>
  /\ shown_errors = 0
  /\ finalized = 0

\* no such object
NoUnit == [name |-> "none"]

Init ==
  /\ ObjectInit
  /\ unit = NoUnit
  /\ setup = [buffer_size |-> buffer_size, chunks |-> MaxChunks,
              io_errors |-> MaxIOErrors, block_duration |-> MaxDuration]
  /\ ListenerAbsent

\* ---- start_capture ------------------------------------------------------
\* start_capture that refuses once a capture has been stopped
start_capture_Once ==
  /\ ctlPc = "idle"
  /\ IF process # None \/ spawned > 0
     THEN UNCHANGED <<objVars, spawned, procs, capVars, errVars>>
     ELSE \/ UNCHANGED <<objVars, spawned, procs, capVars, errVars>>
          \/ /\ spawned < MaxStarts
             /\ LET p == spawned + 1 IN
                /\ spawned' = p
                /\ procs' = [procs EXCEPT ![p].state = "running"]
                /\ process' = p
                /\ stop_event' = FALSE
                /\ capture_thread' = p
                /\ capPc' = [capPc EXCEPT ![p] = "begin"]
                /\ stderr_thread' = p
                /\ errPc' = [errPc EXCEPT ![p] = "begin"]
                /\ UNCHANGED <<capProc, errProc>>
  /\ UNCHANGED <<buffer, statVars, ctlPc, rcVars, blockedAtStop, logVars>>

start_capture ==
  /\ ctlPc = "idle"
  /\ IF process # None
     THEN \* "Capture already started"
          UNCHANGED <<objVars, spawned, procs, capVars, errVars>>
     ELSE \/ \* Popen raises: nothing is assigned, the exception propagates
             UNCHANGED <<objVars, spawned, procs, capVars, errVars>>
          \/ /\ spawned < MaxStarts
             /\ LET p == spawned + 1 IN
                /\ spawned' = p
                /\ procs' = [procs EXCEPT ![p].state = "running"]
                /\ process' = p
                /\ stop_event' = FALSE
                /\ capture_thread' = p
                /\ capPc' = [capPc EXCEPT ![p] = "begin"]
                /\ stderr_thread' = p
                /\ errPc' = [errPc EXCEPT ![p] = "begin"]
                /\ UNCHANGED <<capProc, errProc>>
  /\ UNCHANGED <<buffer, statVars, ctlPc, rcVars, blockedAtStop, logVars>>

\* ---- stop_capture -------------------------------------------------------
ConsumerBlocked == rcPc = "pop" /\ buffer = <<>>

\* a stop that also ends the consumer's blocked get
stop_capture_signal_Wakes ==
  /\ ctlPc = "idle"
  /\ stop_event' = TRUE
  /\ ctlPc' = "join_capture"
  /\ blockedAtStop' = FALSE
  /\ IF ConsumerBlocked
     THEN /\ rcPc' = "idle"
          /\ rcChunks' = <<>>
          /\ rcResult' = IF rcChunks # <<>> THEN "data" ELSE "timeout"
          /\ delivered' = delivered \o rcChunks
          /\ UNCHANGED rcNeed
     ELSE UNCHANGED <<rcVars, delivered>>
  /\ UNCHANGED <<process, capture_thread, stderr_thread, buffer, statVars,
                 spawned, procs, capVars, errVars, nextChunk, pushed, evicted,
                 dropped>>

\* self._stop_event.set()
stop_capture_signal ==
  /\ ctlPc = "idle"
  /\ stop_event' = TRUE
  /\ ctlPc' = "join_capture"
  /\ blockedAtStop' = (blockedAtStop \/ ConsumerBlocked)
  /\ UNCHANGED <<process, capture_thread, stderr_thread, buffer, statVars,
                 spawned, procs, capVars, errVars, rcVars, logVars>>

\* self._capture_thread.join(timeout=5): returns when the thread has ended,
\* or after 5 seconds spent by the thread blocked in its pipe read
stop_capture_join_capture ==
  /\ ctlPc = "join_capture"
  /\ IF capture_thread = None THEN TRUE
     ELSE \/ ~CaptureThreadAlive(capture_thread)
          \/ capPc[capture_thread] = "reading"
  /\ ctlPc' = "join_stderr"
  /\ UNCHANGED <<objVars, buffer, statVars, spawned, procs, capVars, errVars,
                 rcVars, blockedAtStop, logVars>>

\* self._stderr_thread.join(timeout=5)
stop_capture_join_stderr ==
  /\ ctlPc = "join_stderr"
  /\ IF stderr_thread = None THEN TRUE
     ELSE \/ ~StderrThreadAlive(stderr_thread)
          \/ errPc[stderr_thread] = "readline"
  /\ ctlPc' = "terminate"
  /\ UNCHANGED <<objVars, buffer, statVars, spawned, procs, capVars, errVars,
                 rcVars, blockedAtStop, logVars>>

\* if self._process: self._process.terminate()
stop_capture_terminate ==
  /\ ctlPc = "terminate"
  /\ IF process = None
     THEN /\ ctlPc' = "idle"
          /\ UNCHANGED procs
     ELSE /\ procs' = [procs EXCEPT ![process].term = @ + 1]
          /\ ctlPc' = "wait"
  /\ UNCHANGED <<objVars, buffer, statVars, spawned, capVars, errVars,
                 rcVars, blockedAtStop, logVars>>

\* a wait whose TimeoutExpired handler does not kill
stop_capture_wait_NoKill ==
  /\ ctlPc = "wait"
  /\ process' = None
  /\ ctlPc' = "idle"
  /\ UNCHANGED <<capture_thread, stderr_thread, stop_event, buffer, statVars,
                 spawned, procs, capVars, errVars, rcVars, blockedAtStop,
                 logVars>>

\* a wait that leaves the handle in place
stop_capture_wait_KeepHandle ==
  /\ ctlPc = "wait"
  /\ IF Poll(process)
     THEN UNCHANGED procs
     ELSE procs' = [procs EXCEPT ![process].state = "exited",
                                 ![process].kill = @ + 1]
  /\ ctlPc' = "idle"
  /\ UNCHANGED <<objVars, buffer, statVars, spawned, capVars, errVars, rcVars,
                 blockedAtStop, logVars>>

\* self._process.wait(timeout=5); on TimeoutExpired self._process.kill();
\* finally self._process = None
stop_capture_wait ==
  /\ ctlPc = "wait"
  /\ IF Poll(process)
     THEN UNCHANGED procs
     ELSE procs' = [procs EXCEPT ![process].state = "exited",
                                 ![process].kill = @ + 1]
  /\ process' = None
  /\ ctlPc' = "idle"
  /\ UNCHANGED <<capture_thread, stderr_thread, stop_event, buffer, statVars,
                 spawned, capVars, errVars, rcVars, blockedAtStop, logVars>>

\* ---- the decoder process ------------------------------------------------
\* the decoder closes its output (the stream ended) and keeps running
decoder_close_output(p) ==
  /\ procs[p].state = "running"
  /\ procs' = [procs EXCEPT ![p].state = "closed"]
  /\ UNCHANGED <<objVars, buffer, statVars, spawned, capVars, errVars, ctlPc,
                 rcVars, blockedAtStop, logVars>>

\* the decoder exits, by itself or on the signal terminate() sent
decoder_exit(p) ==
  /\ procs[p].state \in {"running", "closed"}
  /\ procs' = [procs EXCEPT ![p].state = "exited"]
  /\ UNCHANGED <<objVars, buffer, statVars, spawned, capVars, errVars, ctlPc,
                 rcVars, blockedAtStop, logVars>>

\* ---- _capture_loop ------------------------------------------------------
\* except Exception: self._errors += 1; if self._errors > 10: break
capture_loop_except(t) ==
  /\ errors' = errors + 1
  /\ capPc' = [capPc EXCEPT ![t] = IF errors + 1 > ErrorThreshold
                                   THEN "done" ELSE "loop"]

\* if not self._process or not self._process.stdout: return
capture_loop_begin(t) ==
  /\ capPc[t] = "begin"
  /\ capPc' = [capPc EXCEPT ![t] = IF process = None THEN "done" ELSE "loop"]
  /\ UNCHANGED <<objVars, buffer, statVars, spawned, procs, capProc,
                 errVars, ctlPc, rcVars, blockedAtStop, logVars>>

\* while not self._stop_event.is_set() and self._process:
capture_loop_while(t) ==
  /\ capPc[t] = "loop"
  /\ capPc' = [capPc EXCEPT ![t] = IF ~stop_event /\ process # None
                                   THEN "call_read" ELSE "done"]
  /\ UNCHANGED <<objVars, buffer, statVars, spawned, procs, capProc,
                 errVars, ctlPc, rcVars, blockedAtStop, logVars>>

\* self._process.stdout.read(chunk_size) is entered on the process the
\* attribute names now; on None the attribute access raises
capture_loop_call_read(t) ==
  /\ capPc[t] = "call_read"
  /\ IF process = None
     THEN /\ capture_loop_except(t)
          /\ UNCHANGED capProc
     ELSE /\ capPc' = [capPc EXCEPT ![t] = "reading"]
          /\ capProc' = [capProc EXCEPT ![t] = process]
          /\ UNCHANGED errors
  /\ UNCHANGED <<objVars, buffer, bytes_read, spawned, procs,
                 errVars, ctlPc, rcVars, blockedAtStop, logVars>>

\* a read that goes round the loop again after a zero-length read
capture_loop_read_EmptyContinues(t) ==
  /\ capPc[t] = "reading"
  /\ \/ /\ procs[capProc[t]].state = "running"
        /\ nextChunk < setup.chunks
        /\ nextChunk' = nextChunk + 1
        /\ capPc' = [capPc EXCEPT ![t] = "put"]
        /\ UNCHANGED errors
     \/ /\ procs[capProc[t]].state \in {"closed", "exited"}
        /\ capPc' = [capPc EXCEPT ![t] = "loop"]
        /\ UNCHANGED <<errors, nextChunk>>
     \/ /\ errors < setup.io_errors
        /\ capture_loop_except(t)
        /\ UNCHANGED nextChunk
  /\ UNCHANGED <<objVars, buffer, bytes_read, spawned, procs, capProc,
                 errVars, ctlPc, rcVars, blockedAtStop,
                 pushed, delivered, evicted, dropped>>

\* the blocking read returns one second of audio, b"" at end of stream,
\* or raises
capture_loop_read(t) ==
  /\ capPc[t] = "reading"
  /\ \/ /\ procs[capProc[t]].state = "running"
        /\ nextChunk < setup.chunks
        /\ nextChunk' = nextChunk + 1
        /\ capPc' = [capPc EXCEPT ![t] = "put"]
        /\ UNCHANGED errors
     \/ /\ procs[capProc[t]].state \in {"closed", "exited"}
        /\ capPc' = [capPc EXCEPT ![t] = "done"]
        /\ UNCHANGED <<errors, nextChunk>>
     \/ /\ errors < setup.io_errors
        /\ capture_loop_except(t)
        /\ UNCHANGED nextChunk
  /\ UNCHANGED <<objVars, buffer, bytes_read, spawned, procs, capProc,
                 errVars, ctlPc, rcVars, blockedAtStop,
                 pushed, delivered, evicted, dropped>>

\* a push that resets the error counter on success
capture_loop_put_ResetsErrors(t) ==
  /\ capPc[t] = "put"
  /\ IF QueueFull(buffer)
     THEN /\ capPc' = [capPc EXCEPT ![t] = "get_nowait"]
          /\ UNCHANGED <<buffer, statVars, pushed>>
     ELSE /\ buffer' = QueuePut(buffer, pushed + 1)
          /\ pushed' = pushed + 1
          /\ bytes_read' = bytes_read + 1
          /\ errors' = 0
          /\ capPc' = [capPc EXCEPT ![t] = "loop"]
  /\ UNCHANGED <<objVars, spawned, procs, capProc, errVars,
                 ctlPc, rcVars, blockedAtStop,
                 nextChunk, delivered, evicted, dropped>>

\* self._buffer.put(audio_data, block=False); self._bytes_read += len(raw_data)
capture_loop_put(t) ==
  /\ capPc[t] = "put"
  /\ IF QueueFull(buffer)
     THEN /\ capPc' = [capPc EXCEPT ![t] = "get_nowait"]
          /\ UNCHANGED <<buffer, bytes_read, pushed>>
     ELSE /\ buffer' = QueuePut(buffer, pushed + 1)
          /\ pushed' = pushed + 1
          /\ bytes_read' = bytes_read + 1
          /\ capPc' = [capPc EXCEPT ![t] = "loop"]
  /\ UNCHANGED <<objVars, errors, spawned, procs, capProc, errVars,
                 ctlPc, rcVars, blockedAtStop,
                 nextChunk, delivered, evicted, dropped>>

\* except queue.Full: self._buffer.get_nowait(); except queue.Empty: pass
capture_loop_get_nowait(t) ==
  /\ capPc[t] = "get_nowait"
  /\ IF buffer = <<>>
     THEN /\ dropped' = dropped + 1
          /\ capPc' = [capPc EXCEPT ![t] = "loop"]
          /\ UNCHANGED <<buffer, evicted>>
     ELSE /\ evicted' = evicted \cup {Head(buffer)}
          /\ buffer' = Tail(buffer)
          /\ capPc' = [capPc EXCEPT ![t] = "put_again"]
          /\ UNCHANGED dropped
  /\ UNCHANGED <<objVars, statVars, spawned, procs, capProc, errVars,
                 ctlPc, rcVars, blockedAtStop,
                 nextChunk, pushed, delivered>>

\* the second self._buffer.put(audio_data, block=False): queue.Full is not
\* caught by "except queue.Empty" and reaches "except Exception"
capture_loop_put_again(t) ==
  /\ capPc[t] = "put_again"
  /\ IF QueueFull(buffer)
     THEN /\ capture_loop_except(t)
          /\ dropped' = dropped + 1
          /\ UNCHANGED <<buffer, pushed>>
     ELSE /\ buffer' = QueuePut(buffer, pushed + 1)
          /\ pushed' = pushed + 1
          /\ capPc' = [capPc EXCEPT ![t] = "loop"]
          /\ UNCHANGED <<errors, dropped>>
  /\ UNCHANGED <<objVars, bytes_read, spawned, procs, capProc,
                 errVars, ctlPc, rcVars, blockedAtStop,
                 nextChunk, delivered, evicted>>

\* ---- _monitor_stderr ----------------------------------------------------
\* if not self._process or not self._process.stderr: return
\* iter(self._process.stderr.readline, b"") binds the pipe of this process
monitor_stderr_begin(t) ==
  /\ errPc[t] = "begin"
  /\ IF process = None
     THEN /\ errPc' = [errPc EXCEPT ![t] = "done"]
          /\ UNCHANGED errProc
     ELSE /\ errPc' = [errPc EXCEPT ![t] = "readline"]
          /\ errProc' = [errProc EXCEPT ![t] = process]
  /\ UNCHANGED <<objVars, buffer, statVars, spawned, procs, capVars, ctlPc,
                 rcVars, blockedAtStop, logVars>>

\* a monitor that counts every line it reads as an error of the capture
monitor_stderr_readline_CountsErrors(t) ==
  /\ errPc[t] = "readline"
  /\ \/ /\ Poll(errProc[t])
        /\ errPc' = [errPc EXCEPT ![t] = "done"]
        /\ UNCHANGED errors
     \/ /\ ~Poll(errProc[t])
        /\ errPc' = [errPc EXCEPT ![t] = IF stop_event THEN "done" ELSE @]
        /\ errors' = IF stop_event \/ errors >= setup.io_errors THEN errors
                     ELSE errors + 1
     \/ /\ errPc' = [errPc EXCEPT ![t] = "done"]
        /\ UNCHANGED errors
  /\ UNCHANGED <<objVars, buffer, bytes_read, spawned, procs, capVars, errProc,
                 ctlPc, rcVars, blockedAtStop, logVars>>

\* one readline: b"" once the process has exited, else a line (classified
\* and logged unless the stop event is set), or an exception
monitor_stderr_readline(t) ==
  /\ errPc[t] = "readline"
  /\ \/ /\ Poll(errProc[t])
        /\ errPc' = [errPc EXCEPT ![t] = "done"]
     \/ /\ ~Poll(errProc[t])
        /\ errPc' = [errPc EXCEPT ![t] = IF stop_event THEN "done" ELSE @]
     \/ errPc' = [errPc EXCEPT ![t] = "done"]
  /\ UNCHANGED <<objVars, buffer, statVars, spawned, procs, capVars, errProc,
                 ctlPc, rcVars, blockedAtStop, logVars>>

\* ---- read_chunk ---------------------------------------------------------
\* read_chunk without the is_alive test
read_chunk_call_NoCheck(d) ==
  /\ rcPc = "idle"
  /\ rcPc' = "pop"
  /\ rcNeed' = d
  /\ rcChunks' = <<>>
  /\ rcResult' = "none"
  /\ UNCHANGED <<objVars, buffer, statVars, spawned, procs, capVars, errVars,
                 ctlPc, blockedAtStop, logVars>>

\* if not self.is_alive(): return None; chunks = []
read_chunk_call(d) ==
  /\ rcPc = "idle"
  /\ IF ~is_alive
     THEN /\ rcResult' = "not_active"
          /\ UNCHANGED <<rcPc, rcNeed, rcChunks>>
     ELSE /\ rcPc' = "pop"
          /\ rcNeed' = d
          /\ rcChunks' = <<>>
          /\ rcResult' = "none"
  /\ UNCHANGED <<objVars, buffer, statVars, spawned, procs, capVars, errVars,
                 ctlPc, blockedAtStop, logVars>>

\* a read_chunk that collects one chunk more than asked
read_chunk_pop_OneMore ==
  /\ rcPc = "pop"
  /\ buffer # <<>>
  /\ buffer' = Tail(buffer)
  /\ blockedAtStop' = FALSE
  /\ LET chunks == Append(rcChunks, Head(buffer)) IN
     IF Len(chunks) = rcNeed + 1
     THEN /\ rcPc' = "idle"
          /\ rcChunks' = <<>>
          /\ rcResult' = "data"
          /\ delivered' = delivered \o chunks
     ELSE /\ rcChunks' = chunks
          /\ UNCHANGED <<rcPc, rcResult, delivered>>
  /\ UNCHANGED <<objVars, statVars, spawned, procs, capVars, errVars, ctlPc,
                 rcNeed, nextChunk, pushed, evicted,
                 dropped>>

\* a read_chunk whose last pop is left out of the returned array
read_chunk_pop_KeepsLast ==
  /\ rcPc = "pop"
  /\ buffer # <<>>
  /\ buffer' = Tail(buffer)
  /\ blockedAtStop' = FALSE
  /\ LET chunks == Append(rcChunks, Head(buffer)) IN
     IF Len(chunks) = rcNeed
     THEN /\ rcPc' = "idle"
          /\ rcChunks' = <<>>
          /\ rcResult' = "data"
          /\ delivered' = delivered \o rcChunks
     ELSE /\ rcChunks' = chunks
          /\ UNCHANGED <<rcPc, rcResult, delivered>>
  /\ UNCHANGED <<objVars, statVars, spawned, procs, capVars, errVars, ctlPc,
                 rcNeed, nextChunk, pushed, evicted,
                 dropped>>

\* self._buffer.get(timeout=duration_seconds + 1) returns a chunk
read_chunk_pop ==
  /\ rcPc = "pop"
  /\ buffer # <<>>
  /\ buffer' = Tail(buffer)
  /\ blockedAtStop' = FALSE
  /\ LET chunks == Append(rcChunks, Head(buffer)) IN
     IF Len(chunks) = rcNeed
     THEN /\ rcPc' = "idle"
          /\ rcChunks' = <<>>
          /\ rcResult' = "data"
          /\ delivered' = delivered \o chunks
     ELSE /\ rcChunks' = chunks
          /\ UNCHANGED <<rcPc, rcResult, delivered>>
  /\ UNCHANGED <<objVars, statVars, spawned, procs, capVars, errVars, ctlPc,
                 rcNeed, nextChunk, pushed, evicted,
                 dropped>>

\* a timeout that throws away what was collected
read_chunk_timeout_DropsPartial ==
  /\ rcPc = "pop"
  /\ buffer = <<>>
  /\ blockedAtStop' = FALSE
  /\ rcPc' = "idle"
  /\ rcChunks' = <<>>
  /\ rcResult' = "timeout"
  /\ UNCHANGED <<objVars, buffer, statVars, spawned, procs, capVars, errVars,
                 ctlPc, rcNeed, logVars>>

\* a timeout that returns an empty array instead of None
read_chunk_timeout_EmptyArray ==
  /\ rcPc = "pop"
  /\ buffer = <<>>
  /\ blockedAtStop' = FALSE
  /\ rcPc' = "idle"
  /\ rcChunks' = <<>>
  /\ rcResult' = "data"
  /\ delivered' = delivered \o rcChunks
  /\ UNCHANGED <<objVars, buffer, statVars, spawned, procs, capVars, errVars,
                 ctlPc, rcNeed, nextChunk, pushed,
                 evicted, dropped>>

\* the get raises queue.Empty: return what was collected, or None
read_chunk_timeout ==
  /\ rcPc = "pop"
  /\ buffer = <<>>
  /\ blockedAtStop' = FALSE
  /\ rcPc' = "idle"
  /\ rcChunks' = <<>>
  /\ IF rcChunks # <<>>
     THEN /\ rcResult' = "data"
          /\ delivered' = delivered \o rcChunks
     ELSE /\ rcResult' = "timeout"
          /\ UNCHANGED delivered
  /\ UNCHANGED <<objVars, buffer, statVars, spawned, procs, capVars, errVars,
                 ctlPc, rcNeed, nextChunk, pushed,
                 evicted, dropped>>

\* ---- the system ---------------------------------------------------------
\* what no method of AudioCapture and no thread of it touches
outside == <<restVars, lsnVars>>

Next ==
  \/ start_capture /\ UNCHANGED outside
  \/ stop_capture_signal /\ UNCHANGED outside
  \/ stop_capture_join_capture /\ UNCHANGED outside
  \/ stop_capture_join_stderr /\ UNCHANGED outside
  \/ stop_capture_terminate /\ UNCHANGED outside
  \/ stop_capture_wait /\ UNCHANGED outside
  \/ \E p \in Procs : decoder_close_output(p) /\ UNCHANGED outside
  \/ \E p \in Procs : decoder_exit(p) /\ UNCHANGED outside
  \/ \E t \in Threads : capture_loop_begin(t) /\ UNCHANGED outside
  \/ \E t \in Threads : capture_loop_while(t) /\ UNCHANGED outside
  \/ \E t \in Threads : capture_loop_call_read(t) /\ UNCHANGED outside
  \/ \E t \in Threads : capture_loop_read(t) /\ UNCHANGED outside
  \/ \E t \in Threads : capture_loop_put(t) /\ UNCHANGED outside
  \/ \E t \in Threads : capture_loop_get_nowait(t) /\ UNCHANGED outside
  \/ \E t \in Threads : capture_loop_put_again(t) /\ UNCHANGED outside
  \/ \E t \in Threads : monitor_stderr_begin(t) /\ UNCHANGED outside
  \/ \E t \in Threads : monitor_stderr_readline(t) /\ UNCHANGED outside
  \/ \E d \in 1..MaxDuration : read_chunk_call(d) /\ UNCHANGED outside
  \/ read_chunk_pop /\ UNCHANGED outside
  \/ read_chunk_timeout /\ UNCHANGED outside

Spec == Init /\ [][Next]_vars

\* ---- RadioListener (src/radio_listener/main.py) -------------------------
\* start() runs on the main thread from its first line to the end of its
\* finally clause; it is the only caller of the AudioCapture methods.
acVars == <<objVars, buffer, statVars, spawned, procs, capVars, errVars,
            ctlPc, rcVars, blockedAtStop, logVars>>

\* RadioListener.__init__, and main() about to call listener.start()
ListenerReady ==
  /\ lPc = "start"
  /\ running = FALSE
  /\ block_count = 0
  /\ audio_data = 0
  /\ saved = <<>>
  /\ shown_errors = 0
  /\ finalized = 0

InitListener ==
  /\ ObjectInit
  /\ unit = NoUnit
  /\ \E d \in 1..MaxDuration :
       setup = [buffer_size |-> buffer_size, chunks |-> MaxChunks,
                io_errors |-> ErrorThreshold + 1, block_duration |-> d]
  /\ ListenerReady

\* a start() whose handler for a failed start_capture enters the loop
listener_start_Swallows ==
  /\ lPc = "start"
  /\ start_capture
  /\ \/ /\ lPc' = "while"
        /\ running' = TRUE
     \/ /\ process' # None
        /\ lPc' = "except"
        /\ UNCHANGED running
  /\ UNCHANGED <<restVars, block_count, audio_data, saved, shown_errors,
                 finalized>>

\* start(): self.audio_capture.start_capture();
\* self.block_recorder.update_metadata(...); self._running = True
listener_start ==
  /\ lPc = "start"
  /\ start_capture
  /\ IF process' = None
     THEN \* start_capture raised
          /\ lPc' = "except"
          /\ UNCHANGED running
     ELSE \/ /\ lPc' = "while"
             /\ running' = TRUE
          \/ \* update_metadata raised
             /\ lPc' = "except"
             /\ UNCHANGED running
  /\ UNCHANGED <<restVars, block_count, audio_data, saved, shown_errors,
                 finalized>>

\* except Exception as e: self.display.show_error(str(e))
listener_except ==
  /\ lPc = "except"
  /\ shown_errors' = shown_errors + 1
  /\ lPc' = "stop"
  /\ UNCHANGED <<acVars, restVars, running, block_count, audio_data, saved,
                 finalized>>

\* a loop that goes on while self._running only
process_loop_while_NoAliveTest ==
  /\ lPc = "while"
  /\ lPc' = IF running THEN "read" ELSE "stop"
  /\ UNCHANGED <<acVars, restVars, running, block_count, audio_data, saved,
                 shown_errors, finalized>>

\* while self._running and self.audio_capture.is_alive():
process_loop_while ==
  /\ lPc = "while"
  /\ lPc' = IF running /\ is_alive THEN "read" ELSE "stop"
  /\ UNCHANGED <<acVars, restVars, running, block_count, audio_data, saved,
                 shown_errors, finalized>>

\* audio_data = self.audio_capture.read_chunk(self.config.block_duration),
\* entered; if audio_data is None: continue
process_loop_read_chunk ==
  /\ lPc = "read"
  /\ read_chunk_call(setup.block_duration)
  /\ lPc' = IF rcPc' = "idle" THEN "while" ELSE "reading"
  /\ UNCHANGED <<restVars, running, block_count, audio_data, saved,
                 shown_errors, finalized>>

\* the main thread inside read_chunk; on its return:
\* if audio_data is None: continue
process_loop_reading ==
  /\ lPc = "reading"
  /\ IF rcPc' = "pop"
     THEN UNCHANGED <<lPc, audio_data>>
     ELSE IF rcResult' = "data"
          THEN /\ lPc' = "transcribe"
               /\ audio_data' = Len(delivered') - Len(delivered)
          ELSE /\ lPc' = "while"
               /\ UNCHANGED audio_data
  /\ UNCHANGED <<restVars, running, block_count, saved, shown_errors, finalized>>

\* transcription = self.transcriber.transcribe(audio_data)
process_loop_transcribe ==
  /\ lPc = "transcribe"
  /\ lPc' \in {"save", "error"}
  /\ UNCHANGED <<acVars, restVars, running, block_count, audio_data, saved,
                 shown_errors, finalized>>

\* self.block_recorder.save_block(..., block_number=self._block_count, ...)
process_loop_save_block ==
  /\ lPc = "save"
  /\ \/ /\ saved' = Append(saved, <<block_count, audio_data>>)
        /\ lPc' = "display"
     \/ /\ lPc' = "error"
        /\ UNCHANGED saved
  /\ UNCHANGED <<acVars, restVars, running, block_count, audio_data,
                 shown_errors, finalized>>

\* stats = get_stats(); self.display.update_status(...);
\* self._block_count += 1
process_loop_display ==
  /\ lPc = "display"
  /\ \/ /\ block_count' = block_count + 1
        /\ lPc' = "while"
     \/ /\ lPc' = "error"
        /\ UNCHANGED block_count
  /\ UNCHANGED <<acVars, restVars, running, audio_data, saved, shown_errors,
                 finalized>>

\* a handler that lets the exception leave the loop
process_loop_error_Raises ==
  /\ lPc = "error"
  /\ lPc' = "except"
  /\ UNCHANGED <<acVars, restVars, running, block_count, audio_data, saved,
                 shown_errors, finalized>>

\* except Exception as e: self.display.show_error(...), and the next pass
process_loop_error ==
  /\ lPc = "error"
  /\ shown_errors' = shown_errors + 1
  /\ lPc' = "while"
  /\ UNCHANGED <<acVars, restVars, running, block_count, audio_data, saved,
                 finalized>>

\* stop(): self._running = False;
\* if self.audio_capture.is_alive(): self.audio_capture.stop_capture()
listener_stop ==
  /\ lPc = "stop"
  /\ running' = FALSE
  /\ IF is_alive
     THEN /\ stop_capture_signal
          /\ lPc' = "stopping"
     ELSE /\ lPc' = "finalize"
          /\ UNCHANGED acVars
  /\ UNCHANGED <<restVars, block_count, audio_data, saved, shown_errors,
                 finalized>>

\* the main thread inside stop_capture, up to its return
listener_stopping ==
  /\ lPc = "stopping"
  /\ lPc' = IF ctlPc' = "idle" THEN "finalize" ELSE "stopping"
  /\ UNCHANGED <<restVars, running, block_count, audio_data, saved,
                 shown_errors, finalized>>

\* self.block_recorder.finalize_session(); the two show_info calls
listener_finalize ==
  /\ lPc = "finalize"
  /\ finalized' = finalized + 1
  /\ lPc' = "done"
  /\ UNCHANGED <<acVars, restVars, running, block_count, audio_data, saved,
                 shown_errors>>

MainThread ==
  \/ listener_start
  \/ listener_except
  \/ process_loop_while
  \/ process_loop_read_chunk
  \/ read_chunk_pop /\ process_loop_reading
  \/ read_chunk_timeout /\ process_loop_reading
  \/ process_loop_transcribe
  \/ process_loop_save_block
  \/ process_loop_display
  \/ process_loop_error
  \/ listener_stop
  \/ stop_capture_join_capture /\ listener_stopping
  \/ stop_capture_join_stderr /\ listener_stopping
  \/ stop_capture_terminate /\ listener_stopping
  \/ stop_capture_wait /\ listener_stopping
  \/ listener_finalize

CaptureThread(t) ==
  \/ capture_loop_begin(t) /\ UNCHANGED outside
  \/ capture_loop_while(t) /\ UNCHANGED outside
  \/ capture_loop_call_read(t) /\ UNCHANGED outside
  \/ capture_loop_read(t) /\ UNCHANGED outside
  \/ capture_loop_put(t) /\ UNCHANGED outside
  \/ capture_loop_get_nowait(t) /\ UNCHANGED outside
  \/ capture_loop_put_again(t) /\ UNCHANGED outside

StderrThread(t) ==
  \/ monitor_stderr_begin(t) /\ UNCHANGED outside
  \/ monitor_stderr_readline(t) /\ UNCHANGED outside

NextListener ==
  \/ MainThread
  \/ \E p \in Procs : decoder_close_output(p) /\ UNCHANGED outside
  \/ \E p \in Procs : decoder_exit(p) /\ UNCHANGED outside
  \/ \E t \in Threads : CaptureThread(t)
  \/ \E t \in Threads : StderrThread(t)

SpecListener == InitListener /\ [][NextListener]_vars

\* the operating system schedules every thread of the program (start()
\* creates one capture-loop and one stderr-monitor thread); a blocked get
\* returns at the latest when its timeout expires
SpecListenerFair ==
  /\ InitListener
  /\ [][NextListener]_vars
  /\ WF_vars(MainThread)
  /\ WF_vars(\E t \in Threads : CaptureThread(t))
  /\ WF_vars(\E t \in Threads : StderrThread(t))

\* ---- the end-of-stream scenario ----------------------------------------
\* RadioListener with the default configuration on a decoder that delivers
\* 25 one-second chunks and then closes its output.  Nothing raises; a get
\* times out only when no capture loop is left to push a chunk.
InitScenario ==
  /\ ObjectInit
  /\ unit = NoUnit
  /\ setup = [buffer_size |-> DefaultBufferSize, chunks |-> 25,
              io_errors |-> 0, block_duration |-> DefaultBlockDuration]
  /\ ListenerReady

NoCaptureLoopLeft == \A t \in Threads : ~CaptureThreadAlive(t)

ScenarioMainThread ==
  \/ listener_start /\ lPc' = "while"
  \/ process_loop_while
  \/ process_loop_read_chunk
  \/ read_chunk_pop /\ process_loop_reading
  \/ read_chunk_timeout /\ process_loop_reading /\ NoCaptureLoopLeft
  \/ process_loop_transcribe /\ lPc' = "save"
  \/ process_loop_save_block /\ lPc' = "display"
  \/ process_loop_display /\ lPc' = "while"
  \/ listener_stop
  \/ listener_finalize

NextScenario ==
  \/ ScenarioMainThread
  \/ \E p \in Procs : /\ nextChunk = setup.chunks
                      /\ decoder_close_output(p)
                      /\ UNCHANGED outside
  \/ \E p \in Procs : /\ procs[p].state = "closed"
                      /\ decoder_exit(p)
                      /\ UNCHANGED outside
  \/ \E t \in Threads : CaptureThread(t)
  \/ \E t \in Threads : StderrThread(t)

SpecScenario == InitScenario /\ [][NextScenario]_vars

\* ---- AudioCapture: stream type and decoder command ----------------------
\* A URL is a sequence of characters (strings of length one).
ToLower ==
  [c \in {"H", "T", "P", "S", "R", "M", "U", "F"} |->
     CASE c = "H" -> "h" [] c = "T" -> "t" [] c = "P" -> "p" [] c = "S" -> "s"
       [] c = "R" -> "r" [] c = "M" -> "m" [] c = "U" -> "u" [] c = "F" -> "f"]

\* str.lower()
lower(q) == [i \in 1..Len(q) |-> IF q[i] \in DOMAIN ToLower THEN ToLower[q[i]]
                                 ELSE q[i]]

Letters == {"h", "t", "p", "s", "r", "m", "u", "f", "a", "x",
            "H", "T", "P", "S", "R", "M", "U", "F"}
SchemeChars == Letters \cup {"3", "8", "+", "-", "."}

\* str.find for a set of characters: the first index, 0 if there is none
Find(q, cs) ==
  IF \E i \in 1..Len(q) : q[i] \in cs
  THEN CHOOSE i \in 1..Len(q) : q[i] \in cs /\ \A j \in 1..(i - 1) : q[j] \notin cs
  ELSE 0

From(q, i) == SubSeq(q, i, Len(q))

\* str.endswith
endswith(q, suffix) ==
  /\ Len(q) >= Len(suffix)
  /\ From(q, Len(q) - Len(suffix) + 1) = suffix

\* urllib.parse.urlparse: the scheme before the first ":", the network
\* location after "//", then the fragment and the query are cut off the path
urlparse(url) ==
  LET i == Find(url, {":"})
      hasScheme == /\ i > 1
                   /\ url[1] \in Letters
                   /\ \A j \in 1..(i - 1) : url[j] \in SchemeChars
      rest == IF hasScheme THEN From(url, i + 1) ELSE url
      hasNetloc == Len(rest) >= 2 /\ rest[1] = "/" /\ rest[2] = "/"
      k == Find(From(rest, 3), {"/", "?", "#"})
      afterNetloc == IF ~hasNetloc THEN rest
                     ELSE IF k = 0 THEN <<>> ELSE From(rest, k + 2)
      f == Find(afterNetloc, {"#"})
      noFragment == IF f = 0 THEN afterNetloc ELSE SubSeq(afterNetloc, 1, f - 1)
      q == Find(noFragment, {"?"})
  IN  [scheme |-> IF hasScheme THEN lower(SubSeq(url, 1, i - 1)) ELSE <<>>,
       path |-> IF q = 0 THEN noFragment ELSE SubSeq(noFragment, 1, q - 1)]

rtsp == <<"r", "t", "s", "p">>
rtsps == <<"r", "t", "s", "p", "s">>
http == <<"h", "t", "t", "p">>
https == <<"h", "t", "t", "p", "s">>
m3u8 == <<".", "m", "3", "u", "8">>
m3u == <<".", "m", "3", "u">>

\* a detection that looks at the path before the scheme
detect_stream_type_PathFirst(url) ==
  LET parsed == urlparse(lower(url))
      scheme == parsed.scheme
      path == lower(parsed.path)
  IN  IF endswith(path, m3u8) \/ endswith(path, m3u) THEN "hls"
      ELSE IF scheme \in {rtsp, rtsps} THEN "rtsp"
      ELSE IF scheme \in {http, https} THEN "http"
      ELSE "unknown"

\* AudioCapture._detect_stream_type
detect_stream_type(url) ==
  LET parsed == urlparse(lower(url))
      scheme == parsed.scheme
      path == lower(parsed.path)
  IN  IF scheme \in {rtsp, rtsps} THEN "rtsp"
      ELSE IF endswith(path, m3u8) \/ endswith(path, m3u) THEN "hls"
      ELSE IF scheme \in {http, https} THEN "http"
      ELSE "unknown"

\* str(n) for n >= 0: the decimal digits
RECURSIVE str(_)
str(n) ==
  LET d == <<"0", "1", "2", "3", "4", "5", "6", "7", "8", "9">>[(n % 10) + 1]
  IN  IF n < 10 THEN <<d>> ELSE Append(str(n \div 10), d)

\* a command-line argument written in the source, and one computed
Lit(text) == [kind |-> "literal", text |-> text]
Chars(q) == [kind |-> "chars", text |-> q]

\* a command whose reconnect options are given to HTTP only
build_ffmpeg_command_NoHls(o) ==
  <<Lit("ffmpeg")>>
  \o (IF o.stream_type = "rtsp"
      THEN <<Lit("-rtsp_transport"), Lit("tcp"), Lit("-rtsp_flags"),
             Lit("prefer_tcp"), Lit("-stimeout"), Lit("5000000")>>
      ELSE IF o.stream_type \in {"http"}
      THEN <<Lit("-reconnect"), Lit("1"), Lit("-reconnect_streamed"), Lit("1"),
             Lit("-reconnect_delay_max"), Lit("5"), Lit("-timeout"),
             Lit("10000000")>>
      ELSE <<>>)
  \o <<Lit("-i"), Chars(o.stream_url)>>
  \o <<Lit("-vn"), Lit("-acodec"), Lit("pcm_s16le"), Lit("-ar"),
       Chars(str(o.sample_rate)), Lit("-ac"), Lit("1"), Lit("-f"),
       Lit("s16le"), Lit("pipe:1")>>

\* AudioCapture._build_ffmpeg_command
build_ffmpeg_command(o) ==
  <<Lit("ffmpeg")>>
  \o (IF o.stream_type = "rtsp"
      THEN <<Lit("-rtsp_transport"), Lit("tcp"), Lit("-rtsp_flags"),
             Lit("prefer_tcp"), Lit("-stimeout"), Lit("5000000")>>
      ELSE IF o.stream_type \in {"http", "hls"}
      THEN <<Lit("-reconnect"), Lit("1"), Lit("-reconnect_streamed"), Lit("1"),
             Lit("-reconnect_delay_max"), Lit("5"), Lit("-timeout"),
             Lit("10000000")>>
      ELSE <<>>)
  \o <<Lit("-i"), Chars(o.stream_url)>>
  \o <<Lit("-vn"), Lit("-acodec"), Lit("pcm_s16le"), Lit("-ar"),
       Chars(str(o.sample_rate)), Lit("-ac"), Lit("1"), Lit("-f"),
       Lit("s16le"), Lit("pipe:1")>>

\* the URLs the object is constructed with: scheme, host, path, query and
\* fragment put together as a URL is written
UrlSchemes == {<<>>, rtsp, <<"R", "T", "S", "P">>, rtsps, http,
               <<"H", "t", "t", "p", "s">>, <<"f", "t", "p">>}
UrlPaths == {<<>>, <<"/", "s">>, <<"/", "s">> \o m3u8,
             <<"/", "S", ".", "M", "3", "U", "8">>, <<"/", "s">> \o m3u,
             <<"/", "a">> \o m3u8 \o <<"/", "s">>,
             <<"/", "s">> \o m3u8 \o <<"x">>}
UrlQueries == {<<>>, <<"?", "a", "=", "x">> \o m3u8}
UrlFragments == {<<>>, <<"#", "x">> \o m3u}
SampleRates == {8000, 16000}

UrlParts == [scheme : UrlSchemes, path : UrlPaths, query : UrlQueries,
             fragment : UrlFragments]

WrittenUrl(parts) ==
  (IF parts.scheme = <<>> THEN <<>>
   ELSE parts.scheme \o <<":", "/", "/", "h", ".", "f", "m">>)
  \o parts.path \o parts.query \o parts.fragment

\* AudioCapture.__init__: self.stream_type = self._detect_stream_type(url)
InitStream ==
  /\ ObjectInit
  /\ setup = [buffer_size |-> buffer_size, chunks |-> MaxChunks,
              io_errors |-> MaxIOErrors, block_duration |-> MaxDuration]
  /\ ListenerAbsent
  /\ \E parts \in UrlParts, rate \in SampleRates :
       unit = [name |-> "AudioCapture",
               parts |-> parts,
               stream_url |-> WrittenUrl(parts),
               sample_rate |-> rate,
               stream_type |-> detect_stream_type(WrittenUrl(parts)),
               command |-> <<>>]

\* start_capture: command = self._build_ffmpeg_command()
stream_build_command ==
  /\ unit.command = <<>>
  /\ unit' = [unit EXCEPT !.command = build_ffmpeg_command(unit)]
  /\ UNCHANGED <<acVars, setup, lsnVars>>

NextStream == stream_build_command

SpecStream == InitStream /\ [][NextStream]_vars

\* ---- ConfigLoader.load_radio_listener_config ----------------------------
\* A dict is a function whose domain is the set of its keys.
EmptyDict == <<>>

\* dict.update
update(d, other) ==
  [k \in (DOMAIN d) \cup (DOMAIN other) |->
     IF k \in DOMAIN other THEN other[k] ELSE d[k]]

Digits == <<"0", "1", "2", "3", "4", "5", "6", "7", "8", "9">>

\* int(text) is defined for a numeral and raises ValueError otherwise
IsNumeral(q) ==
  /\ Len(q) > 0
  /\ \A i \in 1..Len(q) : \E n \in 1..10 : Digits[n] = q[i]

RECURSIVE int(_)
int(q) ==
  LET last == (CHOOSE n \in 1..10 : Digits[n] = q[Len(q)]) - 1
  IN  IF Len(q) = 1 THEN last ELSE 10 * int(SubSeq(q, 1, Len(q) - 1)) + last

\* env_mapping, in the order of the dict literal
env_mapping ==
  << <<"STREAM_URL", "stream_url">>, <<"RTSP_URL", "stream_url">>,
     <<"BLOCK_DURATION", "block_duration">>, <<"SAMPLE_RATE", "sample_rate">>,
     <<"WHISPER_MODEL", "whisper_model">>,
     <<"WHISPER_LANGUAGE", "whisper_language">>,
     <<"OUTPUT_DIR", "output_dir">>, <<"SESSION_ID", "session_id">> >>

\* the loop over env_mapping from its i-th item on
RECURSIVE env_loop(_, _, _)
env_loop(environ, i, config) ==
  IF i > Len(env_mapping) THEN [error |-> "none", config |-> config]
  ELSE LET env_var == env_mapping[i][1]
           config_key == env_mapping[i][2]
       IN  IF env_var \notin DOMAIN environ THEN env_loop(environ, i + 1, config)
           ELSE IF config_key \in {"block_duration", "sample_rate"}
           THEN IF IsNumeral(environ[env_var])
                THEN env_loop(environ, i + 1,
                              update(config, [k \in {config_key} |->
                                                int(environ[env_var])]))
                ELSE [error |-> "ValueError", config |-> config]
           ELSE env_loop(environ, i + 1,
                         update(config, [k \in {config_key} |-> environ[env_var]]))

DefaultSampleRate == 16000

\* the fields of RadioListenerConfig that have a default
RadioListenerDefaults ==
  [k \in {"block_duration", "sample_rate", "whisper_model", "whisper_language",
          "output_dir", "session_id"} |->
     CASE k = "block_duration" -> DefaultBlockDuration
       [] k = "sample_rate" -> DefaultSampleRate
       [] k = "whisper_model" -> "base"
       [] k = "whisper_language" -> "fr"
       [] k = "output_dir" -> "data/raw"
       [] k = "session_id" -> "None"]

WhisperModels == {"tiny", "base", "small", "medium", "large"}

\* RadioListenerConfig(**config): the dataclass constructor and __post_init__
RadioListenerConfig(config) ==
  LET fields == update(RadioListenerDefaults, config)
  IN  IF "stream_url" \notin DOMAIN config THEN [status |-> "TypeError"]
      ELSE IF fields["block_duration"] <= 0 THEN [status |-> "ValueError"]
      ELSE IF fields["sample_rate"] <= 0 THEN [status |-> "ValueError"]
      ELSE IF fields["whisper_model"] \notin WhisperModels
      THEN [status |-> "ValueError"]
      ELSE [status |-> "returned", config |-> fields]

\* the values of the file found at config_file, if one is named and exists
FileSection(config_file) ==
  IF config_file.given /\ config_file.exists
     /\ "radio_listener" \in DOMAIN config_file.content
  THEN config_file.content["radio_listener"]
  ELSE EmptyDict

\* a load in which the environment overrides the file
load_radio_listener_config_EnvOverFile(environ, config_file, kwargs) ==
  LET fromEnv == env_loop(environ, 1, FileSection(config_file))
  IN  IF fromEnv.error # "none" THEN [status |-> fromEnv.error]
      ELSE RadioListenerConfig(update(fromEnv.config, kwargs))

\* ConfigLoader.load_radio_listener_config
load_radio_listener_config(environ, config_file, kwargs) ==
  LET fromEnv == env_loop(environ, 1, EmptyDict)
  IN  IF fromEnv.error # "none" THEN [status |-> fromEnv.error]
      ELSE RadioListenerConfig(
             update(update(fromEnv.config, FileSection(config_file)), kwargs))

\* a dict that holds some of stream_url, block_duration and whisper_model
SomeOf(hasUrl, url, hasDuration, duration, hasModel, model) ==
  [k \in {x \in {"stream_url", "block_duration", "whisper_model"} :
            \/ x = "stream_url" /\ hasUrl
            \/ x = "block_duration" /\ hasDuration
            \/ x = "whisper_model" /\ hasModel} |->
     CASE k = "stream_url" -> url
       [] k = "block_duration" -> duration
       [] k = "whisper_model" -> model]

\* the keyword arguments, the files and the environments of the calls
KwargsDicts ==
  {SomeOf(u, "rtsp://test.com/stream", d # 0, d, m # "", m) :
     u \in BOOLEAN, d \in {0, 30, -1}, m \in {"", "small", "huge"}}

ConfigFiles ==
  {[given |-> FALSE, exists |-> FALSE, content |-> EmptyDict],
   [given |-> TRUE, exists |-> FALSE, content |-> EmptyDict],
   [given |-> TRUE, exists |-> TRUE, content |-> EmptyDict],
   [given |-> TRUE, exists |-> TRUE,
    content |-> [k \in {"classifier"} |-> EmptyDict]]}
  \cup
  {[given |-> TRUE, exists |-> TRUE,
    content |-> [k \in {"radio_listener"} |->
                   SomeOf(u, "rtsp://yaml.com/stream", d, 15, m, "tiny")]] :
     u \in BOOLEAN, d \in BOOLEAN, m \in BOOLEAN}

Environs ==
  {[k \in {x \in {"STREAM_URL", "RTSP_URL", "BLOCK_DURATION", "WHISPER_MODEL"} :
             \/ x = "STREAM_URL" /\ u
             \/ x = "RTSP_URL" /\ r
             \/ x = "BLOCK_DURATION" /\ d # <<>>
             \/ x = "WHISPER_MODEL" /\ m} |->
      CASE k = "STREAM_URL" -> "rtsp://env.com/stream"
        [] k = "RTSP_URL" -> "rtsp://old.com/stream"
        [] k = "BLOCK_DURATION" -> d
        [] k = "WHISPER_MODEL" -> "medium"] :
     u \in BOOLEAN, r \in BOOLEAN, m \in BOOLEAN,
     d \in {<<>>, <<"2", "5">>, <<"7">>, <<"x">>}}

InitConfig ==
  /\ ObjectInit
  /\ setup = [buffer_size |-> buffer_size, chunks |-> MaxChunks,
              io_errors |-> MaxIOErrors, block_duration |-> MaxDuration]
  /\ ListenerAbsent
  /\ \E environ \in Environs, config_file \in ConfigFiles, kwargs \in KwargsDicts :
       unit = [name |-> "ConfigLoader", environ |-> environ,
               config_file |-> config_file, kwargs |-> kwargs,
               result |-> [status |-> "pending"]]

config_load ==
  /\ unit.result.status = "pending"
  /\ unit' = [unit EXCEPT !.result =
                load_radio_listener_config(unit.environ, unit.config_file,
                                           unit.kwargs)]
  /\ UNCHANGED <<acVars, setup, lsnVars>>

NextConfig == config_load

SpecConfig == InitConfig /\ [][NextConfig]_vars

\* ---- BlockRecorder ------------------------------------------------------
MaxCalls == 3

\* format(n, "04d") for n >= 0: the decimal digits, zero-filled to width 4
Format04d(n) ==
  LET q == str(n)
  IN  IF Len(q) >= 4 THEN q ELSE [i \in 1..(4 - Len(q)) |-> "0"] \o q

\* blocks_dir / f"{block_id}{suffix}" with block_id = f"block_{n:04d}"
BlockPath(n, suffix) == [stem |-> "block_", digits |-> Format04d(n),
                         suffix |-> suffix]

max(a, b) == IF a >= b THEN a ELSE b

\* a save that takes the last block number for the total
save_block_NoMax(o, block_number, outcome) ==
  IF outcome = "wav fails" THEN o
  ELSE IF outcome = "text fails"
  THEN [o EXCEPT !.files = @ \cup {BlockPath(block_number, ".wav")}]
  ELSE [o EXCEPT !.files = @ \cup {BlockPath(block_number, ".wav"),
                                   BlockPath(block_number, ".txt")},
                 !.metadata.total_blocks = block_number + 1,
                 !.saved = @ \cup {block_number}]

\* BlockRecorder.save_block; when writing a file raises, the exception is
\* raised again before the metadata is touched
save_block(o, block_number, outcome) ==
  IF outcome = "wav fails" THEN o
  ELSE IF outcome = "text fails"
  THEN [o EXCEPT !.files = @ \cup {BlockPath(block_number, ".wav")}]
  ELSE [o EXCEPT !.files = @ \cup {BlockPath(block_number, ".wav"),
                                   BlockPath(block_number, ".txt")},
                 !.metadata.total_blocks =
                   max(o.metadata.total_blocks, block_number + 1),
                 !.saved = @ \cup {block_number}]

\* the block numbers and the totals that callers pass
BlockNumbers == {0, 1, 2, 41, 9999, 10000}
Totals == {0, 5}

\* BlockRecorder.__init__
InitRecorder ==
  /\ ObjectInit
  /\ setup = [buffer_size |-> buffer_size, chunks |-> MaxChunks,
              io_errors |-> MaxIOErrors, block_duration |-> MaxDuration]
  /\ ListenerAbsent
  /\ unit = [name |-> "BlockRecorder",
             metadata |-> [end_time |-> FALSE, total_blocks |-> 0],
             files |-> {}, metadata_file |-> <<>>,
             saved |-> {}, overridden |-> FALSE, calls |-> 0]

recorder_save_block(block_number, outcome) ==
  /\ unit.calls < MaxCalls
  /\ unit' = [save_block(unit, block_number, outcome) EXCEPT !.calls = @ + 1]
  /\ UNCHANGED <<acVars, setup, lsnVars>>

\* update_metadata(total_blocks=n)
recorder_update_metadata(n) ==
  /\ unit.calls < MaxCalls
  /\ unit' = [unit EXCEPT !.metadata.total_blocks = n, !.overridden = TRUE,
                          !.calls = @ + 1]
  /\ UNCHANGED <<acVars, setup, lsnVars>>

\* finalize_session: sets the end time and writes metadata.json
recorder_finalize_session ==
  /\ unit.calls < MaxCalls
  /\ unit' = [unit EXCEPT !.metadata.end_time = TRUE,
                          !.metadata_file =
                            <<[unit.metadata EXCEPT !.end_time = TRUE]>>,
                          !.calls = @ + 1]
  /\ UNCHANGED <<acVars, setup, lsnVars>>

NextRecorder ==
  \/ \E n \in BlockNumbers, outcome \in {"saved", "wav fails", "text fails"} :
       recorder_save_block(n, outcome)
  \/ \E n \in Totals : recorder_update_metadata(n)
  \/ recorder_finalize_session

SpecRecorder == InitRecorder /\ [][NextRecorder]_vars

\* ---- SessionConverter ---------------------------------------------------
MaxBlocks == 2

DefaultCategory == "A classifier"
\* Annotator.CATEGORIES ("Publicite" stands for the accented name)
Categories == {"A classifier", "Publicite", "Radio"}

NoDatabase == [exists |-> FALSE, tables |-> FALSE, metadata |-> FALSE,
               blocks |-> EmptyDict]

\* _create_database: an existing file is unlinked and the schema created;
\* the rows are committed together, or rolled back when reading a block
\* raises (a wav file whose name holds no number)
create_database(raw) ==
  IF raw.stray
  THEN [exists |-> TRUE, tables |-> TRUE, metadata |-> FALSE,
        blocks |-> EmptyDict]
  ELSE [exists |-> TRUE, tables |-> TRUE, metadata |-> TRUE,
        blocks |-> [n \in raw.blocks |-> DefaultCategory]]

\* a conversion that does not look for an existing database
convert_session_AlwaysRebuilds(o, force) ==
  LET call == [turn |-> 1 - o.result.turn, force |-> force]
  IN  IF ~o.raw.exists
      THEN [o EXCEPT !.result = call @@ [value |-> "FileNotFoundError"]]
      ELSE IF ~o.raw.metadata
      THEN [o EXCEPT !.result = call @@ [value |-> "FileNotFoundError"]]
      ELSE [o EXCEPT !.db = create_database(o.raw),
                     !.result = call @@ [value |-> IF o.raw.stray
                                                    THEN "ValueError"
                                                    ELSE "path"]]

\* SessionConverter.convert_session
convert_session(o, force) ==
  LET call == [turn |-> 1 - o.result.turn, force |-> force]
  IN  IF ~o.raw.exists
      THEN [o EXCEPT !.result = call @@ [value |-> "FileNotFoundError"]]
      ELSE IF o.db.exists /\ ~force
      THEN [o EXCEPT !.result = call @@ [value |-> "path"]]
      ELSE IF ~o.raw.metadata
      THEN [o EXCEPT !.result = call @@ [value |-> "FileNotFoundError"]]
      ELSE [o EXCEPT !.db = create_database(o.raw),
                     !.result = call @@ [value |-> IF o.raw.stray
                                                    THEN "ValueError"
                                                    ELSE "path"]]

\* SessionConverter.list_unconverted_sessions: the raw sessions (the
\* directories that hold a metadata.json) without a .db file of their name
list_unconverted_sessions(o) ==
  LET raw_sessions == IF o.raw.exists /\ o.raw.metadata THEN {o.name} ELSE {}
      processed_sessions == IF o.db.exists THEN {o.name} ELSE {}
  IN  raw_sessions \ processed_sessions

\* a raw session directory as BlockRecorder.__init__ leaves it, and no
\* processed database
InitConverter ==
  /\ ObjectInit
  /\ setup = [buffer_size |-> buffer_size, chunks |-> MaxChunks,
              io_errors |-> MaxIOErrors, block_duration |-> MaxDuration]
  /\ ListenerAbsent
  /\ unit = [name |-> "SessionConverter",
             raw |-> [exists |-> TRUE, metadata |-> FALSE, blocks |-> {},
                      stray |-> FALSE],
             db |-> NoDatabase,
             result |-> [turn |-> 0, force |-> FALSE, value |-> "none"]]

converter_convert_session(force) ==
  /\ unit' = convert_session(unit, force)
  /\ UNCHANGED <<acVars, setup, lsnVars>>

\* Annotator._classify_block: UPDATE blocks SET category WHERE block_number
annotator_classify_block(block_number, category) ==
  /\ unit.db.exists /\ unit.db.tables
  /\ unit' = [unit EXCEPT !.db.blocks =
                [n \in DOMAIN @ |-> IF n = block_number THEN category ELSE @[n]]]
  /\ UNCHANGED <<acVars, setup, lsnVars>>

\* BlockRecorder.save_block writes the next block of the raw session
raw_save_block ==
  /\ unit.raw.exists
  /\ \E n \in 0..(MaxBlocks - 1) :
       /\ n \notin unit.raw.blocks
       /\ \A m \in 0..(n - 1) : m \in unit.raw.blocks
       /\ unit' = [unit EXCEPT !.raw.blocks = @ \cup {n}]
  /\ UNCHANGED <<acVars, setup, lsnVars>>

\* BlockRecorder.finalize_session writes metadata.json
raw_finalize_session ==
  /\ unit.raw.exists
  /\ unit' = [unit EXCEPT !.raw.metadata = TRUE]
  /\ UNCHANGED <<acVars, setup, lsnVars>>

\* a wav file whose name holds no block number is put into the blocks
\* directory
raw_stray_file ==
  /\ unit.raw.exists
  /\ unit' = [unit EXCEPT !.raw.stray = ~@]
  /\ UNCHANGED <<acVars, setup, lsnVars>>

\* StorageManager.delete_session
storage_delete_session(processed) ==
  /\ IF processed
     THEN unit.db.exists /\ unit' = [unit EXCEPT !.db = NoDatabase]
     ELSE unit.raw.exists
          /\ unit' = [unit EXCEPT !.raw = [exists |-> FALSE, metadata |-> FALSE,
                                           blocks |-> {}, stray |-> FALSE]]
  /\ UNCHANGED <<acVars, setup, lsnVars>>

NextConverter ==
  \/ \E force \in BOOLEAN : converter_convert_session(force)
  \/ \E n \in 0..(MaxBlocks - 1), category \in Categories :
       annotator_classify_block(n, category)
  \/ raw_save_block
  \/ raw_finalize_session
  \/ raw_stray_file
  \/ \E processed \in BOOLEAN : storage_delete_session(processed)

SpecConverter == InitConverter /\ [][NextConverter]_vars

\* ---- AudioCapture: the read errors of each capture session --------------
\* The object driven by free callers, with a decoder pipe that can fail
\* more than ErrorThreshold times; unit.read_errors counts the reads that
\* raised since the latest start_capture that spawned a decoder.
InitErrors ==
  /\ ObjectInit
  /\ unit = [name |-> "AudioCapture", read_errors |-> 0]
  /\ setup = [buffer_size |-> buffer_size, chunks |-> MaxChunks,
              io_errors |-> ErrorThreshold + 1, block_duration |-> MaxDuration]
  /\ ListenerAbsent

NextErrors ==
  \/ /\ start_capture
     /\ unit' = IF spawned' # spawned THEN [unit EXCEPT !.read_errors = 0]
                ELSE unit
     /\ UNCHANGED <<setup, lsnVars>>
  \/ stop_capture_signal /\ UNCHANGED outside
  \/ stop_capture_join_capture /\ UNCHANGED outside
  \/ stop_capture_join_stderr /\ UNCHANGED outside
  \/ stop_capture_terminate /\ UNCHANGED outside
  \/ stop_capture_wait /\ UNCHANGED outside
  \/ \E p \in Procs : decoder_close_output(p) /\ UNCHANGED outside
  \/ \E p \in Procs : decoder_exit(p) /\ UNCHANGED outside
  \/ \E t \in Threads : capture_loop_begin(t) /\ UNCHANGED outside
  \/ \E t \in Threads : capture_loop_while(t) /\ UNCHANGED outside
  \/ \E t \in Threads : capture_loop_call_read(t) /\ UNCHANGED outside
  \/ \E t \in Threads :
       /\ capture_loop_read(t)
       /\ unit' = IF errors' # errors THEN [unit EXCEPT !.read_errors = @ + 1]
                  ELSE unit
       /\ UNCHANGED <<setup, lsnVars>>
  \/ \E t \in Threads : capture_loop_put(t) /\ UNCHANGED outside
  \/ \E t \in Threads : capture_loop_get_nowait(t) /\ UNCHANGED outside
  \/ \E t \in Threads : capture_loop_put_again(t) /\ UNCHANGED outside
  \/ \E t \in Threads : monitor_stderr_begin(t) /\ UNCHANGED outside
  \/ \E t \in Threads : monitor_stderr_readline(t) /\ UNCHANGED outside

SpecErrors == InitErrors /\ [][NextErrors]_vars

\* ---- read_chunk: the time spent waiting --------------------------------
\* One call of read_chunk on a live capture, with the seconds each
\* self._buffer.get(timeout=duration_seconds + 1) takes: a chunk arrives
\* after 0..duration_seconds whole seconds, or the get times out after
\* duration_seconds + 1.
MaxBlockDuration == 3

InitTimed ==
  /\ ObjectInit
  /\ setup = [buffer_size |-> buffer_size, chunks |-> MaxChunks,
              io_errors |-> MaxIOErrors, block_duration |-> MaxDuration]
  /\ ListenerAbsent
  /\ \E d \in 1..MaxBlockDuration :
       unit = [name |-> "read_chunk", duration_seconds |-> d, pc |-> "for",
               chunks |-> 0, waits |-> <<>>, result |-> "none"]

\* chunk = self._buffer.get(timeout=duration_seconds + 1); chunks.append(chunk)
timed_get(seconds) ==
  /\ unit.pc = "for"
  /\ seconds <= unit.duration_seconds
  /\ unit' = [unit EXCEPT
                !.chunks = @ + 1,
                !.waits = Append(@, seconds),
                !.pc = IF unit.chunks + 1 = unit.duration_seconds
                       THEN "returned" ELSE "for",
                !.result = IF unit.chunks + 1 = unit.duration_seconds
                           THEN "data" ELSE "none"]
  /\ UNCHANGED <<acVars, setup, lsnVars>>

\* except queue.Empty: if chunks: break; return None
timed_empty ==
  /\ unit.pc = "for"
  /\ unit' = [unit EXCEPT
                !.waits = Append(@, unit.duration_seconds + 1),
                !.pc = "returned",
                !.result = IF unit.chunks > 0 THEN "data" ELSE "None"]
  /\ UNCHANGED <<acVars, setup, lsnVars>>

NextTimed ==
  \/ \E seconds \in 0..MaxBlockDuration : timed_get(seconds)
  \/ timed_empty

SpecTimed == InitTimed /\ [][NextTimed]_vars

\* ---- _capture_loop and read_chunk: the length of the chunks --------------
\* The decoder writes unit.remaining more bytes and closes its output; the
\* buffer holds the number of samples of each chunk.
MaxBytes == 9

InitPipe ==
  /\ ObjectInit
  /\ setup = [buffer_size |-> buffer_size, chunks |-> MaxChunks,
              io_errors |-> MaxIOErrors, block_duration |-> MaxDuration]
  /\ ListenerAbsent
  /\ \E rate \in 1..2, total \in 0..MaxBytes :
       unit = [name |-> "pipe", sample_rate |-> rate, remaining |-> total,
               buffer |-> <<>>, bytes_read |-> 0, errors |-> 0,
               alive |-> TRUE, pc |-> "idle", need |-> 0, chunks |-> <<>>,
               result |-> <<>>]

\* one turn of the while loop: raw_data = stdout.read(chunk_size) returns
\* chunk_size bytes, or what is left once the output is closed; b"" breaks;
\* np.frombuffer raises ValueError on an odd number of bytes; the chunk is
\* put, after dropping the oldest one if the queue is full
pipe_capture_loop ==
  /\ unit.alive
  /\ LET chunk_size == unit.sample_rate * 2
         n == IF unit.remaining < chunk_size THEN unit.remaining
              ELSE chunk_size
         full == Len(unit.buffer) = maxsize
     IN  unit' =
           IF n = 0 THEN [unit EXCEPT !.alive = FALSE]
           ELSE IF n % 2 = 1
           THEN [unit EXCEPT !.remaining = @ - n,
                             !.errors = @ + 1,
                             !.alive = unit.errors + 1 <= ErrorThreshold]
           ELSE [unit EXCEPT !.remaining = @ - n,
                             !.buffer = Append(IF full THEN Tail(@) ELSE @,
                                               n \div 2),
                             !.bytes_read = IF full THEN @ ELSE @ + n]
  /\ UNCHANGED <<acVars, setup, lsnVars>>

\* read_chunk: if not self.is_alive(): return None; chunks = []
pipe_read_chunk_call(d) ==
  /\ unit.pc = "idle"
  /\ unit' = IF unit.alive
             THEN [unit EXCEPT !.pc = "get", !.need = d, !.chunks = <<>>]
             ELSE [unit EXCEPT !.result = <<>>]
  /\ UNCHANGED <<acVars, setup, lsnVars>>

\* chunk = self._buffer.get(...); chunks.append(chunk); after the last one
\* return np.concatenate(chunks)
pipe_read_chunk_get ==
  /\ unit.pc = "get"
  /\ unit.buffer # <<>>
  /\ LET chunks == Append(unit.chunks, Head(unit.buffer))
     IN  unit' = IF Len(chunks) = unit.need
                 THEN [unit EXCEPT !.buffer = Tail(@), !.chunks = <<>>,
                                   !.pc = "idle", !.result = chunks]
                 ELSE [unit EXCEPT !.buffer = Tail(@), !.chunks = chunks]
  /\ UNCHANGED <<acVars, setup, lsnVars>>

\* except queue.Empty: return what was collected, or None
pipe_read_chunk_empty ==
  /\ unit.pc = "get"
  /\ unit.buffer = <<>>
  /\ unit' = [unit EXCEPT !.chunks = <<>>, !.pc = "idle",
                          !.result = unit.chunks]
  /\ UNCHANGED <<acVars, setup, lsnVars>>

NextPipe ==
  \/ pipe_capture_loop
  \/ \E d \in 1..MaxDuration : pipe_read_chunk_call(d)
  \/ pipe_read_chunk_get
  \/ pipe_read_chunk_empty

SpecPipe == InitPipe /\ [][NextPipe]_vars

\* ---- one sample from the decoder pipe to the WAV file --------------------
\* A float32 value is the exact fraction num / den, den a power of two.
Int16Min == -32768
Int16Max == 32767
Scale == 32768
WavScale == 32767
MantissaBits == 24

Abs(n) == IF n < 0 THEN 0 - n ELSE n

RECURSIVE BitLength(_)
BitLength(n) == IF n = 0 THEN 0 ELSE 1 + BitLength(n \div 2)

RECURSIVE Pow2(_)
Pow2(k) == IF k = 0 THEN 1 ELSE 2 * Pow2(k - 1)

\* the nearest number with MantissaBits significant bits, ties to even
RoundFloat32(n) ==
  LET k == BitLength(n) - MantissaBits
  IN  IF k <= 0 THEN n
      ELSE LET q == n \div Pow2(k)
               r == n % Pow2(k)
               half == Pow2(k - 1)
           IN  (IF r > half \/ (r = half /\ q % 2 = 1) THEN q + 1 ELSE q) * Pow2(k)

\* two bytes, little-endian two's complement, of a 16-bit sample
tobytes(sample) ==
  LET u == (sample + 65536) % 65536
  IN  <<u % 256, u \div 256>>

\* np.frombuffer(raw_data, dtype=np.int16) for one sample
frombuffer(raw) ==
  LET u == raw[1] + 256 * raw[2]
  IN  IF u >= 32768 THEN u - 65536 ELSE u

\* a conversion that divides by 32767
to_float_By32767(raw) == [num |-> frombuffer(raw), den |-> WavScale]

\* audio_data.astype(np.float32) / 32768.0
to_float(raw) == [num |-> frombuffer(raw), den |-> Scale]

\* (audio_data * 32767).astype(np.int16): the float32 product, truncated
\* toward zero
to_int16(x) ==
  LET product == RoundFloat32(Abs(x.num) * WavScale)
      magnitude == product \div x.den
  IN  IF x.num < 0 THEN 0 - magnitude ELSE magnitude

InitSample ==
  /\ ObjectInit
  /\ setup = [buffer_size |-> buffer_size, chunks |-> MaxChunks,
              io_errors |-> MaxIOErrors, block_duration |-> MaxDuration]
  /\ ListenerAbsent
  /\ \E sample \in Int16Min..Int16Max :
       unit = [name |-> "sample", sample |-> sample, raw |-> tobytes(sample),
               pc |-> "read"]

\* _capture_loop: the sample is converted and put into the buffer
sample_capture ==
  /\ unit.pc = "read"
  /\ unit' = [name |-> "sample", sample |-> unit.sample, raw |-> unit.raw,
              pc |-> "buffered", buffered |-> to_float(unit.raw)]
  /\ UNCHANGED <<acVars, setup, lsnVars>>

\* BlockRecorder._save_wav: writeframes(audio_int16.tobytes())
sample_save_wav ==
  /\ unit.pc = "buffered"
  /\ unit' = [name |-> "sample", sample |-> unit.sample, raw |-> unit.raw,
              pc |-> "written", buffered |-> unit.buffered,
              written |-> tobytes(to_int16(unit.buffered))]
  /\ UNCHANGED <<acVars, setup, lsnVars>>

NextSample == sample_capture \/ sample_save_wav

SpecSample == InitSample /\ [][NextSample]_vars

\* ---- one recording session: RadioListener and its BlockRecorder ----------
\* The loop of _process_loop with the files of the session directory; what
\* read_chunk, is_alive, the transcriber, the file system and the display
\* answer is chosen freely.  passed is the list of the save_block calls.
MaxSaves == 3

InitSession ==
  /\ ObjectInit
  /\ setup = [buffer_size |-> buffer_size, chunks |-> MaxChunks,
              io_errors |-> MaxIOErrors, block_duration |-> MaxDuration]
  /\ ListenerAbsent
  /\ unit = [name |-> "session", pc |-> "while", running |-> TRUE,
             block_count |-> 0, total_blocks |-> 0, passed |-> <<>>,
             wav |-> {}, txt |-> {}, metadata_file |-> <<>>]

\* the outcome of the latest save_block call, as the loop goes on
Settle(passed, outcome) ==
  [passed EXCEPT ![Len(passed)] = [number |-> @.number, outcome |-> outcome]]

\* while self._running and self.audio_capture.is_alive():
session_while ==
  /\ unit.pc = "while"
  /\ \E alive \in BOOLEAN :
       unit' = [unit EXCEPT !.pc = IF unit.running /\ alive THEN "read" ELSE "stop"]
  /\ UNCHANGED <<acVars, setup, lsnVars>>

\* audio_data = read_chunk(block_duration); if audio_data is None: continue
session_read_chunk ==
  /\ unit.pc = "read"
  /\ \/ unit' = [unit EXCEPT !.pc = "while"]
     \/ /\ Len(unit.passed) < MaxSaves
        /\ unit' = [unit EXCEPT !.pc = "transcribe"]
  /\ UNCHANGED <<acVars, setup, lsnVars>>

\* transcription = self.transcriber.transcribe(audio_data)
session_transcribe ==
  /\ unit.pc = "transcribe"
  /\ \E raised \in BOOLEAN :
       unit' = [unit EXCEPT !.pc = IF raised THEN "error" ELSE "save"]
  /\ UNCHANGED <<acVars, setup, lsnVars>>

\* BlockRecorder.save_block(block_number=self._block_count): _save_wav,
\* _save_transcription, total_blocks; either file operation may raise
\* before or after it has created its file
session_save_block ==
  /\ unit.pc = "save"
  /\ LET block_number == unit.block_count
         call(outcome) == Append(unit.passed, [number |-> block_number,
                                               outcome |-> outcome])
     IN  \/ \E created \in BOOLEAN :
              unit' = [unit EXCEPT
                         !.passed = call("failed"),
                         !.wav = IF created THEN @ \cup {block_number} ELSE @,
                         !.pc = "error"]
         \/ \E created \in BOOLEAN :
              unit' = [unit EXCEPT
                         !.passed = call("failed"),
                         !.wav = @ \cup {block_number},
                         !.txt = IF created THEN @ \cup {block_number} ELSE @,
                         !.pc = "error"]
         \/ unit' = [unit EXCEPT
                       !.passed = call("saved"),
                       !.wav = @ \cup {block_number},
                       !.txt = @ \cup {block_number},
                       !.total_blocks = max(@, block_number + 1),
                       !.pc = "display"]
  /\ UNCHANGED <<acVars, setup, lsnVars>>

\* a loop that counts the block before it displays it
session_display_CountsFirst ==
  /\ unit.pc = "display"
  /\ \/ unit' = [unit EXCEPT !.passed = Settle(@, "done"),
                             !.block_count = @ + 1, !.pc = "while"]
     \/ unit' = [unit EXCEPT !.passed = Settle(@, "failed"),
                             !.block_count = @ + 1, !.pc = "error"]
  /\ UNCHANGED <<acVars, setup, lsnVars>>

\* stats = get_stats(); self.display.update_status(...); logger.info(...);
\* self._block_count += 1
session_display ==
  /\ unit.pc = "display"
  /\ \/ unit' = [unit EXCEPT !.passed = Settle(@, "done"),
                             !.block_count = @ + 1, !.pc = "while"]
     \/ unit' = [unit EXCEPT !.passed = Settle(@, "failed"), !.pc = "error"]
  /\ UNCHANGED <<acVars, setup, lsnVars>>

\* except Exception as e: logger.error(...); self.display.show_error(...)
session_error ==
  /\ unit.pc = "error"
  /\ unit' = [unit EXCEPT !.pc = "while"]
  /\ UNCHANGED <<acVars, setup, lsnVars>>

\* stop(), from the finally clause of start(): self._running = False;
\* self.block_recorder.finalize_session() writes metadata.json
session_stop ==
  /\ unit.pc = "stop"
  /\ unit' = [unit EXCEPT !.running = FALSE,
                          !.metadata_file = <<unit.total_blocks>>,
                          !.pc = "done"]
  /\ UNCHANGED <<acVars, setup, lsnVars>>

NextSession ==
  \/ session_while
  \/ session_read_chunk
  \/ session_transcribe
  \/ session_save_block
  \/ session_display
  \/ session_error
  \/ session_stop

SpecSession == InitSession /\ [][NextSession]_vars

\* ---- Annotator (src/classifier/annotator.py) ----------------------------
\* The blocks table as a function from block number to category, the
\* current block number as <<n>> (<<>> for None), the file the audio player
\* holds as <<n>> or <<>>, and the key the main loop handled last.
MaxBlockNumber == 2

\* Annotator.CATEGORIES (the names stand for the accented ones)
CATEGORIES ==
  [key \in {"1", "2", "3", "4"} |->
     CASE key = "1" -> "A classifier"
       [] key = "2" -> "Publicite"
       [] key = "3" -> "Radio"
       [] key = "4" -> "Impossible a classifier"]

\* what _get_key can return
Keys == {"1", "2", "3", "4", "RIGHT", " ", "LEFT", "UP", "DOWN", "ESC",
         "p", "P", "r", "R", "h", "H", "s", "S", "u", "U", "q", "Q",
         "x", "5", "0"}

\* ORDER BY block_number LIMIT 1 and ORDER BY block_number DESC LIMIT 1
FirstRow(rows) == IF rows = {} THEN <<>>
                  ELSE <<CHOOSE n \in rows : \A m \in rows : n <= m>>
LastRow(rows) == IF rows = {} THEN <<>>
                 ELSE <<CHOOSE n \in rows : \A m \in rows : n >= m>>

\* _find_first_unannotated
find_first_unannotated(o) ==
  FirstRow({n \in DOMAIN o.blocks : o.blocks[n] = "A classifier"})

\* UPDATE blocks SET category = ? WHERE block_number = ?
classify_block(o, block_number, category) ==
  [o EXCEPT !.blocks = [n \in DOMAIN @ |->
                          IF n = block_number THEN category ELSE @[n]]]

\* a move to the number that follows, whether a block has it or not
next_block_PlusOne(o) ==
  [o EXCEPT !.current_block_number = <<@[1] + 1>>]

\* _next_block
next_block(o) ==
  LET row == FirstRow({n \in DOMAIN o.blocks : n > o.current_block_number[1]})
  IN  IF row # <<>> THEN [o EXCEPT !.current_block_number = row] ELSE o

\* _previous_block
previous_block(o) ==
  LET row == LastRow({n \in DOMAIN o.blocks : n < o.current_block_number[1]})
  IN  IF row # <<>> THEN [o EXCEPT !.current_block_number = row] ELSE o

\* _skip_to_unclassified
skip_to_unclassified(o) ==
  LET row == FirstRow({n \in DOMAIN o.blocks :
                         n > o.current_block_number[1]
                         /\ o.blocks[n] = "A classifier"})
  IN  IF row # <<>> THEN [o EXCEPT !.current_block_number = row] ELSE o

\* _play_audio: the player is given the file of the current block when it
\* is initialized, the file exists and can be loaded
play_audio(o, played) ==
  IF played /\ o.current_block_number[1] \in DOMAIN o.blocks
  THEN [o EXCEPT !.current_file = o.current_block_number]
  ELSE o

\* _replay_audio: the file the player holds, if it still exists, else
\* _play_audio
replay_audio(o, exists, played) ==
  IF o.current_file # <<>> /\ exists THEN o ELSE play_audio(o, played)

\* _handle_key: the state it leaves, and in pc whether the loop goes on
handle_key(o, key, exists, played) ==
  IF key \in {"1", "2", "3", "4"}
  THEN next_block(classify_block(o, o.current_block_number[1], CATEGORIES[key]))
  ELSE IF key = "RIGHT" \/ key = " " THEN next_block(o)
  ELSE IF key = "LEFT" THEN previous_block(o)
  ELSE IF key = "p" \/ key = "P" THEN play_audio(o, played)
  ELSE IF key = "r" \/ key = "R" THEN replay_audio(o, exists, played)
  ELSE IF key = "h" \/ key = "H" THEN o
  ELSE IF key = "s" \/ key = "S" THEN o
  ELSE IF key = "u" \/ key = "U" THEN skip_to_unclassified(o)
  ELSE IF key = "q" \/ key = "Q" THEN [o EXCEPT !.pc = "summary"]
  ELSE o

\* the databases SessionConverter builds and earlier annotation sessions
\* leave: any blocks, each with one of the categories
InitAnnotator ==
  /\ ObjectInit
  /\ setup = [buffer_size |-> buffer_size, chunks |-> MaxChunks,
              io_errors |-> MaxIOErrors, block_duration |-> MaxDuration]
  /\ ListenerAbsent
  /\ \E numbers \in SUBSET (0..MaxBlockNumber) :
       \E blocks \in [numbers -> {CATEGORIES[k] : k \in DOMAIN CATEGORIES}] :
         unit = [name |-> "Annotator", pc |-> "start", blocks |-> blocks,
                 current_block_number |-> <<0>>, current_file |-> <<>>,
                 key |-> "none"]

\* start(): _show_welcome waits for a key; _find_first_unannotated; return
\* when every block is annotated
annotator_start ==
  /\ unit.pc = "start"
  /\ LET row == find_first_unannotated(unit)
     IN  unit' = [unit EXCEPT !.current_block_number = row,
                              !.pc = IF row = <<>> THEN "ended" ELSE "loop"]
  /\ UNCHANGED <<acVars, setup, lsnVars>>

\* one pass of the main loop: _display_block, key = self._get_key(),
\* self._handle_key(key); the help and statistics overlays wait for one
\* more key and drop it
annotator_handle_key(key) ==
  /\ unit.pc = "loop"
  /\ \E exists \in BOOLEAN, played \in BOOLEAN :
       unit' = [handle_key(unit, key, exists, played) EXCEPT !.key = key]
  /\ UNCHANGED <<acVars, setup, lsnVars>>

\* _show_summary, which waits for a key, and the finally clause
annotator_show_summary ==
  /\ unit.pc = "summary"
  /\ unit' = [unit EXCEPT !.pc = "ended"]
  /\ UNCHANGED <<acVars, setup, lsnVars>>

NextAnnotator ==
  \/ annotator_start
  \/ \E key \in Keys : annotator_handle_key(key)
  \/ annotator_show_summary

SpecAnnotator == InitAnnotator /\ [][NextAnnotator]_vars

\* ---- properties ---------------------------------------------------------
Range(q) == {q[i] : i \in 1..Len(q)}

Min(a, b) == IF a < b THEN a ELSE b

StrictlyIncreasing(q) == \A i, j \in 1..Len(q) : i < j => q[i] < q[j]

Running(p) == procs[p].state \in {"running", "closed"}

\* the handle was cleared by a stop_capture that has returned
Stopped == ctlPc = "idle" /\ process = None /\ spawned > 0

\* C1: the number of chunks in the buffer is always between 0 and
\* 2 * buffer_size, whatever the capture loops and the consumer do.
C1_BufferWithinCapacity == Len(buffer) >= 0 /\ Len(buffer) <= 2 * buffer_size

\* a capture loop found the buffer at capacity while the consumer is
\* inside read_chunk
C1_Witness ==
  /\ Len(buffer) = 2 * buffer_size
  /\ rcPc = "pop"
  /\ \E t \in Threads : capPc[t] = "get_nowait"

\* C2: every chunk the capture loop reads from the decoder is admitted
\* into the buffer: no push discards the new chunk.
C2_EveryChunkAdmitted == dropped = 0

\* C3: a push removes a buffered chunk only when the buffer holds exactly
\* capacity chunks at the moment of removal, and then exactly the oldest.
C3_EvictOnlyAtCapacity ==
  [][evicted' # evicted =>
       /\ Len(buffer) = 2 * buffer_size
       /\ evicted' = evicted \cup {Head(buffer)}
       /\ buffer' = Tail(buffer)]_vars

\* C4: chunks returned by read_chunk appear in the order in which they
\* were pushed, none twice, and no evicted chunk is ever returned.
C4_DeliveredInPushOrder ==
  /\ StrictlyIncreasing(delivered \o rcChunks)
  /\ Range(delivered \o rcChunks) \cap evicted = {}
  /\ Range(delivered \o rcChunks) \subseteq 1..pushed

\* two chunks were returned after an older one was evicted
C4_Witness == Len(delivered) >= 2 /\ evicted # {}

\* no capture loop is between evicting a chunk and putting its own
NoPushInProgress == \A t \in Threads : capPc[t] # "put_again"

C6_StopUnblocksPop == blockedAtStop => ctlPc # "idle"

\* C6 as amended: stop_capture leaves the buffer and the consumer alone;
\* a blocked pop ends only by a chunk arriving or by its timeout.
C6_PopEndsByChunkOrTimeout ==
  [][/\ (ConsumerBlocked /\ ~ConsumerBlocked') =>
          (read_chunk_timeout \/ buffer' # <<>>)
     /\ ctlPc' # ctlPc => UNCHANGED <<buffer, rcVars, delivered>>]_vars

\* stop_capture has returned and the pop that was blocked when it was
\* called is still blocked
C6_Witness == blockedAtStop /\ ctlPc = "idle" /\ process = None /\ ConsumerBlocked

\* C7: once stop_capture has returned, the decoder it stopped is not
\* running; it received terminate, and kill only after terminate.
C7_DecoderNotRunningAfterStop ==
  \A p \in Procs :
    (procs[p].state # "unspawned" /\ process # p) =>
      /\ procs[p].state = "exited"
      /\ procs[p].term >= 1
      /\ procs[p].kill <= 1

\* a stop_capture returned after killing a decoder that ignored terminate
C7_Witness ==
  /\ ctlPc = "idle"
  /\ process = None
  /\ \E p \in Procs : procs[p].term = 1 /\ procs[p].kill = 1

\* C8: stop_capture is idempotent: the handle is None once a stop has
\* returned, no decoder receives terminate twice, and on a capture that
\* was never started a stop touches nothing.
C8_StopIdempotent ==
  /\ (ctlPc = "idle" /\ stop_event) => process = None
  /\ \A p \in Procs : procs[p].term <= 1 /\ procs[p].kill <= 1
  /\ spawned = 0 =>
       /\ process = None /\ capture_thread = None /\ stderr_thread = None
       /\ ~is_alive
       /\ \A p \in Procs : procs[p].state = "unspawned" /\ procs[p].term = 0
       /\ buffer = <<>> /\ bytes_read = 0 /\ errors = 0

\* a second stop_capture, called after one that cleared the handle,
\* has reached its terminate step
C8_Witness ==
  /\ ctlPc = "terminate"
  /\ process = None
  /\ \E p \in Procs : procs[p].term = 1

C10_NoRestart == [][Stopped => spawned' = spawned]_vars

\* C10 as amended: Idle -> Running -> Stopped -> Running ...: start_capture
\* spawns a decoder and starts the threads exactly when no handle is held,
\* which is the case again after stop_capture has returned.
C10_StartSpawnsIffNoHandle ==
  (ctlPc = "idle" /\ spawned < MaxStarts) =>
    (ENABLED (/\ start_capture
              /\ spawned' = spawned + 1
              /\ process' = spawned + 1
              /\ procs'[spawned + 1].state = "running"
              /\ capPc'[spawned + 1] = "begin"
              /\ errPc'[spawned + 1] = "begin"
              /\ ~stop_event')
       <=> process = None)

\* a second decoder is running after the first was stopped
C10_Witness ==
  /\ spawned = 2
  /\ process = 2
  /\ procs[1].term = 1
  /\ procs[2].state = "running"
  /\ CaptureThreadAlive(2)

\* C11: is_alive() is true exactly when a process handle is held, that
\* process has not exited and the capture-loop thread is running; it is
\* false before any start, after stop_capture has returned, and once the
\* capture loop has ended even if the process still runs.
C11_IsAliveIffAllThree ==
  /\ is_alive <=> /\ process # None
                  /\ procs[process].state # "exited"
                  /\ capture_thread # None
                  /\ capPc[capture_thread] \notin {"none", "done"}
  /\ spawned = 0 => ~is_alive
  /\ Stopped => ~is_alive
  /\ (capture_thread # None /\ capPc[capture_thread] = "done") => ~is_alive

\* the capture loop has ended, the handle is still held, the decoder still
\* runs with its output open, and is_alive() is false
C11_Witness ==
  /\ process # None
  /\ procs[process].state = "running"
  /\ capPc[capture_thread] = "done"
  /\ ~is_alive

\* C12: read_chunk called while is_alive() is false returns None without
\* attempting any pop: the buffer is what it was before the call.
C12_FailFastLeavesBuffer ==
  [][(~is_alive /\ \E d \in 1..MaxDuration : read_chunk_call(d)) =>
       /\ rcResult' = "not_active"
       /\ rcPc' = "idle"
       /\ UNCHANGED <<buffer, rcChunks, delivered>>]_vars

\* a read_chunk call returned None at once with the buffer at capacity
C12_Witness ==
  /\ rcPc = "idle"
  /\ rcResult = "not_active"
  /\ Len(buffer) = maxsize

\* C13: when a pop times out after k chunks were collected (1 <= k < d),
\* read_chunk returns exactly those k chunks in pop order and pops no more.
C13_PartialOnTimeout ==
  [][(rcChunks # <<>> /\ read_chunk_timeout) =>
       /\ Len(rcChunks) < rcNeed
       /\ rcResult' = "data"
       /\ delivered' = delivered \o rcChunks
       /\ rcPc' = "idle"
       /\ buffer' = buffer]_vars

\* a read_chunk call for two seconds returned one chunk
C13_Witness ==
  /\ rcPc = "idle"
  /\ rcResult = "data"
  /\ rcNeed = 2
  /\ Len(delivered) = 1

\* C14: when the first pop of a read_chunk call times out, the call
\* returns None.
C14_NoneOnFirstTimeout ==
  [][(rcChunks = <<>> /\ read_chunk_timeout) =>
       /\ rcResult' = "timeout"
       /\ rcPc' = "idle"
       /\ UNCHANGED <<delivered, buffer>>]_vars

\* a read_chunk call on a live capture returned None by timeout
C14_Witness ==
  /\ rcPc = "idle"
  /\ rcResult = "timeout"
  /\ delivered = <<>>

\* C15: an exception raised by the transcriber or the recorder while a
\* block is processed is caught inside the processing loop and reported
\* through display.show_error, and the loop goes on with its next pass; the
\* loop is left only when the capture is not alive (or _running is false).
C15_BlockFailureContinues ==
  [][/\ (lPc \in {"transcribe", "save"} /\ lPc' # lPc) =>
          lPc' \in {"save", "display", "error"}
     /\ (lPc = "error" /\ lPc' # lPc) =>
          /\ lPc' = "while"
          /\ shown_errors' = shown_errors + 1
          /\ running' = running
     /\ (lPc = "while" /\ lPc' = "stop") => ~(running /\ is_alive)]_vars

\* a block is being transcribed after the failure of an earlier one
C15_Witness ==
  /\ lPc = "transcribe"
  /\ shown_errors >= 1
  /\ is_alive

\* the capture-loop thread of the current capture has ended
CaptureLoopEnded == capture_thread # None /\ capPc[capture_thread] = "done"

\* C16: once the capture loop has ended (end of stream, or more than ten
\* errors), is_alive() is false and the processing loop ends on its own:
\* the session is finalized and the block count reported.
C16_LoopEndsAfterCaptureEnds ==
  /\ [](CaptureLoopEnded => ~is_alive)
  /\ CaptureLoopEnded ~> (lPc = "done" /\ finalized = 1)

\* the capture loop gave up after its eleventh error and start() has
\* returned with the session finalized
C16_Witness ==
  /\ errors > ErrorThreshold
  /\ CaptureLoopEnded
  /\ lPc = "done"
  /\ finalized = 1

\* C17: when RadioListener.stop() has returned, no decoder process is left
\* running, also when the capture loop ended on its own while the decoder
\* was still running.
C17_DecoderDestroyedAfterStop ==
  lPc = "done" => \A p \in Procs : ~Running(p)

\* seconds of audio in the i-th saved block
Seconds(i) == saved[i][2]

C19_SpawnFailure ==
  (lPc # "start" /\ spawned = 0) =>
    /\ process = None /\ capture_thread = None /\ stderr_thread = None
    /\ \A t \in Threads : capPc[t] = "none" /\ errPc[t] = "none"
    /\ ~is_alive
    /\ lPc \in {"except", "stop", "finalize", "done"}
    /\ lPc # "except" => shown_errors = 1
    /\ lPc = "done" => finalized = 1
    /\ block_count = 0 /\ saved = <<>> /\ rcResult = "none"

\* start() has returned after a start_capture that raised
C19_Witness ==
  /\ spawned = 0
  /\ lPc = "done"
  /\ shown_errors = 1
  /\ finalized = 1

C21_StreamTypePrecedence ==
  /\ [](LET scheme == lower(unit.parts.scheme)
            path == lower(unit.parts.path)
        IN  unit.stream_type =
              IF scheme \in {rtsp, rtsps} THEN "rtsp"
              ELSE IF endswith(path, m3u8) \/ endswith(path, m3u) THEN "hls"
              ELSE IF scheme \in {http, https} THEN "http"
              ELSE "unknown")
  /\ [][unit'.stream_type = unit.stream_type]_vars

\* an upper-case rtsp URL whose path ends in .m3u8 was classified rtsp and
\* its command built
C21_Witness ==
  /\ unit.parts.scheme = <<"R", "T", "S", "P">>
  /\ unit.parts.path = <<"/", "S", ".", "M", "3", "U", "8">>
  /\ unit.stream_type = "rtsp"
  /\ unit.command # <<>>

\* the arguments of the built command that are written in the source
Literals(command) ==
  {command[i].text : i \in {j \in 1..Len(command) : command[j].kind = "literal"}}

RtspOptions == {"-rtsp_transport", "-rtsp_flags", "-stimeout"}
ReconnectOptions == {"-reconnect", "-reconnect_streamed",
                     "-reconnect_delay_max", "-timeout"}

\* C22: the command has the RTSP transport and timeout options exactly for
\* type rtsp, the reconnect and timeout options exactly for http and hls,
\* neither for unknown; and for every type it ends with -i, the URL, -vn,
\* -acodec pcm_s16le, -ar <sample rate>, -ac 1, -f s16le, pipe:1.
C22_CommandOptions ==
  unit.command # <<>> =>
    LET command == unit.command
        n == Len(command)
    IN  /\ (RtspOptions \subseteq Literals(command)) <=> unit.stream_type = "rtsp"
        /\ (RtspOptions \cap Literals(command) # {}) <=> unit.stream_type = "rtsp"
        /\ (ReconnectOptions \subseteq Literals(command))
             <=> unit.stream_type \in {"http", "hls"}
        /\ (ReconnectOptions \cap Literals(command) # {})
             <=> unit.stream_type \in {"http", "hls"}
        /\ n >= 13
        /\ SubSeq(command, n - 11, n) =
             <<Lit("-i"), Chars(unit.stream_url), Lit("-vn"), Lit("-acodec"),
               Lit("pcm_s16le"), Lit("-ar"),
               Chars(IF unit.sample_rate = 16000
                     THEN <<"1", "6", "0", "0", "0">>
                     ELSE <<"8", "0", "0", "0">>),
               Lit("-ac"), Lit("1"), Lit("-f"), Lit("s16le"), Lit("pipe:1")>>

\* the command for an https playlist at 16 kHz was built
C22_Witness ==
  /\ unit.command # <<>>
  /\ unit.stream_type = "hls"
  /\ unit.parts.scheme = <<"H", "t", "t", "p", "s">>
  /\ unit.sample_rate = 16000

\* the environment variables that are set and name the key
EnvVarsOf(key) ==
  {env_mapping[i][1] : i \in {j \in 1..Len(env_mapping) :
                                /\ env_mapping[j][2] = key
                                /\ env_mapping[j][1] \in DOMAIN unit.environ}}

\* C23: for each key of a loaded configuration the value is the keyword
\* argument if one is given, else the value of the YAML file if it has one,
\* else the value of an environment variable for the key if one is set,
\* else the default.
C23_PriorityOrder ==
  unit.result.status = "returned" =>
    \A key \in DOMAIN unit.result.config :
      LET value == unit.result.config[key]
          file == IF unit.config_file.given /\ unit.config_file.exists
                     /\ "radio_listener" \in DOMAIN unit.config_file.content
                  THEN unit.config_file.content["radio_listener"]
                  ELSE EmptyDict
      IN  IF key \in DOMAIN unit.kwargs THEN value = unit.kwargs[key]
          ELSE IF key \in DOMAIN file THEN value = file[key]
          ELSE IF EnvVarsOf(key) # {}
          THEN \E v \in EnvVarsOf(key) :
                 IF key \in {"block_duration", "sample_rate"}
                 THEN str(value) = unit.environ[v]
                 ELSE value = unit.environ[v]
          ELSE value = RadioListenerDefaults[key]

\* a load in which a keyword argument beat the file, the file beat the
\* environment, the environment beat a default and a default was used
C23_Witness ==
  /\ unit.result.status = "returned"
  /\ "block_duration" \in DOMAIN unit.kwargs
  /\ "block_duration" \in DOMAIN FileSection(unit.config_file)
  /\ "BLOCK_DURATION" \in DOMAIN unit.environ
  /\ "stream_url" \notin DOMAIN unit.kwargs
  /\ "stream_url" \in DOMAIN FileSection(unit.config_file)
  /\ "STREAM_URL" \in DOMAIN unit.environ
  /\ DOMAIN FileSection(unit.config_file) = {"block_duration", "stream_url"}
  /\ "whisper_model" \notin DOMAIN unit.kwargs
  /\ "WHISPER_MODEL" \in DOMAIN unit.environ
  /\ unit.result.config["whisper_model"] = "medium"
  /\ unit.result.config["sample_rate"] = DefaultSampleRate

\* the largest element of a non-empty set of numbers
Largest(S) == CHOOSE n \in S : \A m \in S : m <= n

\* C24: as long as update_metadata has not been called, total_blocks is one
\* plus the largest block number saved so far (0 before the first save) and
\* never decreases, and every saved block N has a .wav and a .txt file named
\* block_ followed by N in decimal, zero-padded to four digits.
C24_TotalBlocksAndNames ==
  /\ [](~unit.overridden =>
          /\ unit.metadata.total_blocks =
               IF unit.saved = {} THEN 0 ELSE 1 + Largest(unit.saved)
          /\ \A n \in unit.saved : \A suffix \in {".wav", ".txt"} :
               \E f \in unit.files :
                 /\ f.stem = "block_"
                 /\ f.suffix = suffix
                 /\ IsNumeral(f.digits)
                 /\ int(f.digits) = n
                 /\ Len(f.digits) >= 4
                 /\ Len(f.digits) > 4 => f.digits[1] # "0")
  /\ [][~unit'.overridden =>
          unit'.metadata.total_blocks >= unit.metadata.total_blocks]_vars

\* blocks 10000, 2 and 41 were saved in this order without an override
C24_Witness ==
  /\ ~unit.overridden
  /\ unit.saved = {2, 41, 10000}
  /\ unit.metadata.total_blocks = 10001
  /\ BlockPath(2, ".wav") \in unit.files

C26_EleventhReadError ==
  [][\A t \in Threads :
       (capPc[t] = "reading" /\ errors' # errors) =>
         /\ errors' = errors + 1
         /\ pushed' = pushed /\ buffer' = buffer /\ bytes_read' = bytes_read
         /\ capPc'[t] = "done" <=> unit'.read_errors = ErrorThreshold + 1]_vars

\* C27: a read of the decoder output has three outcomes: it raises, it
\* returns a chunk (only while the decoder writes), or it returns nothing,
\* and then the capture loop ends in this very step with the error counter,
\* bytes_read and the buffer as they were.
C27_EmptyReadEndsLoop ==
  [][\A t \in Threads :
       (capPc[t] = "reading" /\ capPc'[t] # "reading") =>
         \/ errors' = errors + 1
         \/ /\ procs[capProc[t]].state = "running"
            /\ nextChunk' = nextChunk + 1
            /\ capPc'[t] = "put"
         \/ /\ procs[capProc[t]].state \in {"closed", "exited"}
            /\ capPc'[t] = "done"
            /\ errors' = errors
            /\ bytes_read' = bytes_read
            /\ buffer' = buffer
            /\ pushed' = pushed]_vars

\* the only capture loop ever started has ended without an error and
\* without a stop, on the closed output of a decoder that still runs, with
\* a chunk left in the buffer
C27_Witness ==
  /\ spawned = 1
  /\ capPc[1] = "done"
  /\ procs[1].state = "closed"
  /\ process = 1
  /\ ~stop_event
  /\ ctlPc = "idle"
  /\ errors = 0
  /\ bytes_read > 0
  /\ buffer # <<>>

\* C29: when stop_capture returns, the handle is cleared and no capture
\* loop and no stderr monitor is alive.
C29_NothingLeftAfterStop ==
  [][(ctlPc # "idle" /\ ctlPc' = "idle") =>
       /\ process' = None
       /\ \A t \in Threads : capPc'[t] \in {"none", "done"}
       /\ \A t \in Threads : errPc'[t] \in {"none", "done"}]_vars

\* C30: no step of a stderr monitor changes the error counter, bytes_read,
\* the buffer, the stop flag, the process handle, the decoder processes or
\* the position of any capture loop; a line that is read and logged changes
\* nothing at all, so every change of these comes with a move of a capture
\* loop, of the consumer or of the controller.
C30_MonitorChangesNothing ==
  /\ [][(\E t \in Threads : errPc'[t] # errPc[t] /\ errPc[t] # "none") =>
          /\ errors' = errors
          /\ bytes_read' = bytes_read
          /\ buffer' = buffer
          /\ stop_event' = stop_event
          /\ process' = process
          /\ procs' = procs
          /\ capPc' = capPc
          /\ capture_thread' = capture_thread]_vars
  /\ [][/\ (errors' # errors \/ bytes_read' # bytes_read) => capPc' # capPc
        /\ buffer' # buffer =>
             (capPc' # capPc \/ rcChunks' # rcChunks \/ delivered' # delivered)
        /\ (stop_event' # stop_event \/ process' # process) =>
             (ctlPc' # ctlPc \/ spawned' # spawned)]_vars

\* a stderr monitor has ended while its capture loop goes on reading the
\* running decoder
C30_Witness ==
  \E t \in Threads :
    /\ errPc[t] = "done"
    /\ capPc[t] = "reading"
    /\ process = t
    /\ procs[t].state = "running"
    /\ ~stop_event
    /\ bytes_read > 0

RECURSIVE Sum(_)
Sum(q) == IF q = <<>> THEN 0 ELSE Head(q) + Sum(Tail(q))

\* C28: a read_chunk(d) call does at most d gets, none longer than d + 1
\* seconds, and spends at most d + 1 seconds waiting in all.
C28_WaitBounded ==
  /\ Len(unit.waits) <= unit.duration_seconds
  /\ \A i \in 1..Len(unit.waits) : unit.waits[i] <= unit.duration_seconds + 1
  /\ Sum(unit.waits) <= unit.duration_seconds + 1

\* C31: every chunk in the buffer holds sample_rate samples, and the
\* length of every array read_chunk returns is a multiple of sample_rate.
C31_WholeSeconds ==
  /\ \A i \in 1..Len(unit.buffer) : unit.buffer[i] = unit.sample_rate
  /\ \A i \in 1..Len(unit.chunks) : unit.chunks[i] = unit.sample_rate
  /\ Sum(unit.result) % unit.sample_rate = 0

\* C33: the buffered value of a raw sample s is s / 32768, which lies in
\* [-1, 1]; it is exactly -1 for -32768 and below 1 for 32767.
C33_NormalizedSample ==
  unit.pc \in {"buffered", "written"} =>
    LET x == unit.buffered
    IN  /\ x.den > 0
        /\ x.num * 32768 = unit.sample * x.den
        /\ 0 - x.den <= x.num /\ x.num <= x.den
        /\ unit.sample = -32768 => x.num = 0 - x.den
        /\ unit.sample = 32767 => x.num < x.den

\* the sample -32768 was buffered as -1
C33_Witness ==
  /\ unit.pc = "buffered"
  /\ unit.sample = -32768
  /\ unit.raw = <<0, 128>>
  /\ unit.buffered.num = 0 - unit.buffered.den

\* C39: the sample written to the WAV file equals the raw sample the
\* decoder delivered.
C39_WavRoundTrip ==
  unit.pc = "written" => frombuffer(unit.written) = unit.sample

\* the numbers of the save_block calls that went through every step
Done(passed) == {i \in 1..Len(passed) : passed[i].outcome = "done"}

\* C32: the block counter is the number of blocks transcribed, saved and
\* displayed; it moves by one, at the end of such a block only; the numbers
\* passed to save_block start at 0 and each is the one before or, after a
\* block went through, the next one.
C32_BlockCounter ==
  /\ unit.block_count = Cardinality(Done(unit.passed))
  /\ \A i \in 1..Len(unit.passed) :
       LET call == unit.passed[i]
       IN  /\ call.number = Cardinality({j \in Done(unit.passed) : j < i})
           /\ i < Len(unit.passed) => call.outcome \in {"done", "failed"}
           /\ call.outcome = "saved" => unit.pc = "display"
  /\ unit.pc \in {"while", "read", "transcribe", "save"} /\ unit.passed # <<>> =>
       unit.passed[Len(unit.passed)].outcome \in {"done", "failed"}

\* block 0 was passed twice, its first save having failed, then block 1
C32_Witness ==
  /\ Len(unit.passed) = 3
  /\ unit.passed[1] = [number |-> 0, outcome |-> "failed"]
  /\ unit.passed[2] = [number |-> 0, outcome |-> "done"]
  /\ unit.passed[3].number = 1
  /\ unit.block_count = 1

\* C36: in a finalized session the number of block_NNNN.wav files, the
\* total_blocks of metadata.json and the block counter are equal.
C36_FinalizedCounts ==
  unit.pc = "done" =>
    /\ Cardinality(unit.wav) = unit.metadata_file[1]
    /\ unit.metadata_file[1] = unit.block_count

\* the chunk a step of the consumer takes out of the buffer, if any
Removed ==
  IF buffer # <<>> /\ buffer' = Tail(buffer) /\ evicted' = evicted
  THEN <<Head(buffer)>>
  ELSE <<>>

\* C34: read_chunk returns every chunk it removes from the buffer: the
\* chunks removed are, in order, the chunks held by the call in progress
\* and then returned; a call that returns None has removed no chunk.
C34_ReturnsWhatItRemoved ==
  [][/\ delivered' \o rcChunks' = (delivered \o rcChunks) \o Removed
     /\ rcPc' = "idle" =>
          /\ rcChunks' = <<>>
          /\ (rcPc = "idle" \/ rcResult' # "data") => delivered' = delivered]_vars

\* a read_chunk call for two seconds returned the two chunks it removed,
\* after the capture loop had evicted one
C34_Witness ==
  /\ rcPc = "idle"
  /\ rcResult = "data"
  /\ rcNeed = 2
  /\ Len(delivered) = 2
  /\ evicted # {}
  /\ buffer = <<>>

\* C35: bytes_read counts every chunk admitted into the buffer since
\* construction, the chunks admitted by evicting included.
C35_BytesReadCountsAdmitted == bytes_read = pushed

\* C37: a convert_session that fails while building the database leaves
\* no processed database file, and the session is still among the
\* unconverted ones.
C37_FailedConversionLeavesUnconverted ==
  [][(unit'.result.turn # unit.result.turn /\ unit'.result.value = "ValueError") =>
       /\ ~unit'.db.exists
       /\ unit.name \in list_unconverted_sessions(unit')]_vars

\* the block that follows block n in the database, or n when it is the last
Following(blocks, n) ==
  IF \E m \in DOMAIN blocks : m > n
  THEN CHOOSE m \in DOMAIN blocks :
         m > n /\ \A k \in DOMAIN blocks : k > n => m <= k
  ELSE n

\* C38: in the annotator's loop the current block number names a block of
\* the database and every category is one of the four; a key 1-4 sets the
\* category of the current block only and moves to the next existing block
\* or stays on the last one; the loop ends on q or Q only; a key that is
\* not bound changes nothing.
C38_AnnotatorKeys ==
  [][/\ unit'.pc = "loop" =>
          /\ unit'.current_block_number # <<>>
          /\ unit'.current_block_number[1] \in DOMAIN unit'.blocks
          /\ \A n \in DOMAIN unit'.blocks :
               unit'.blocks[n] \in {"A classifier", "Publicite", "Radio",
                                    "Impossible a classifier"}
     /\ unit.pc = "loop" =>
          LET key == unit'.key
              current == unit.current_block_number[1]
          IN  /\ unit'.pc # "loop" <=> key \in {"q", "Q"}
              /\ DOMAIN unit'.blocks = DOMAIN unit.blocks
              /\ key \in {"1", "2", "3", "4"} =>
                   /\ unit'.blocks[current] = CATEGORIES[key]
                   /\ \A n \in DOMAIN unit.blocks \ {current} :
                        unit'.blocks[n] = unit.blocks[n]
                   /\ unit'.current_block_number =
                        <<Following(unit.blocks, current)>>
                   /\ unit'.current_file = unit.current_file
              /\ key \notin {"1", "2", "3", "4", "RIGHT", " ", "LEFT", "p", "P",
                             "r", "R", "h", "H", "s", "S", "u", "U", "q", "Q"} =>
                   unit' = [unit EXCEPT !.key = key]]_vars

\* the key 4 was handled on the last block of a database with a gap in its
\* numbers: the block has the fourth category and is still the current one
C38_Witness ==
  /\ unit.name = "Annotator"
  /\ unit.pc = "loop"
  /\ unit.key = "4"
  /\ DOMAIN unit.blocks = {0, 2}
  /\ unit.current_block_number = <<2>>
  /\ unit.blocks[2] = "Impossible a classifier"
  /\ unit.blocks[0] = "A classifier"

====
